---- MODULE Spec2Model ----
(***************************************************************************)
(* State-machine model of the Armbian imager core (src-tauri):             *)
(*   - the download / verify / decompress pipeline of download.rs and      *)
(*     decompress.rs, publishing into the shared DownloadState;            *)
(*   - the Linux flash engine of flash/linux.rs, publishing into           *)
(*     FlashState.                                                         *)
(* Every action is one step of the code between two points at which        *)
(* another thread (the UI's cancel command) or the environment (network,   *)
(* file system, helper process) can be observed.                           *)
(***************************************************************************)
EXTENDS Integers, Sequences, FiniteSets, TLC

VARIABLES
    url,        \* the URL the downloads of this run ask for
    body,       \* the bytes the server serves for the URL (environment)
    sidecar,    \* the response the server gives for sha_url (environment)
    fs,         \* the cache directory: path -> file content, or NoFile
    op,         \* arguments of the download operation in flight
    pc,         \* position of the download operation in its code
    state,      \* DownloadState (download.rs:23-31)
    loc,        \* local variables of the download operation
    ret,        \* what the last download operation returned
    gh,         \* history of the operation in flight (observation only)
    fop,        \* arguments of the flash operation in flight
    fpc,        \* position of the flash operation in its code
    fstate,     \* FlashState
    dev,        \* the device: blocks written by dd, blocks read back
    fret,       \* what the last flash operation returned
    flog,       \* the steps the flash operation in flight has performed
    fgh,        \* where the flash stood when cancel was requested
    release,    \* the release metadata GitHub serves now (environment)
    digest_cache,  \* DIGEST_CACHE (images/mod.rs:22)
    gpc,        \* position of each digest lookup in fetch_github_digests
    gloc,       \* the digests each lookup has fetched
    gret,       \* what each lookup returned last
    ggh,        \* history of the writes to DIGEST_CACHE (observation only)
    catalog,    \* the catalog the Armbian API serves now (environment)
    images_json,   \* AppState.images_json
    cpc,        \* position of each detect_board_from_filename call
    cloc,       \* the catalog each call has fetched
    cret,       \* the catalog each call read at step 8, or its error
    cgh,        \* history of the writes to images_json (observation only)
    platform,   \* the disks and volumes Windows exposes (environment)
    epc,        \* position of get_block_devices in its code
    eloc,       \* disk_number and consecutive_errors of its loop
    devices,    \* the Vec<BlockDevice> it is building
    eret,       \* what get_block_devices returned
    slug,       \* a call of normalize_slug: its argument and results
    tracker,    \* a ProgressTracker (utils/progress.rs:12-29)
    tret,       \* what its last update returned
    tgh,        \* history of its updates (observation only)
    entries,      \* the entries of the file system the delete commands see
    cache_enabled,  \* "cache_enabled" of settings.json
    del,        \* the last delete command: its request, result, and the
                \* entries before it ran
    clock,      \* the system time in milliseconds (environment)
    jobs,       \* each concurrent decompress_custom_image call: its
                \* position, output path and result
    outputs,    \* the files of the custom-decompress directory
    custom,     \* a custom image given by its file name: what
                \* needs_decompression and decompress_local_file make of it
    asset       \* what the release metadata holds for the file downloaded
                \* (environment)

dvars == <<url, body, sidecar, asset, fs, op, pc, state, loc, ret, gh>>
fvars == <<fop, fpc, fstate, dev, fret, flog, fgh>>
gvars == <<release, digest_cache, gpc, gloc, gret, ggh>>
cvars == <<catalog, images_json, cpc, cloc, cret, cgh>>
evars == <<platform, epc, eloc, devices, eret>>
uvars == <<slug>>
tvars == <<tracker, tret, tgh>>
xvars == <<entries, cache_enabled, del>>
lvars == <<clock, jobs, outputs>>
nvars == <<custom>>
vars == <<url, body, sidecar, asset, fs, op, pc, state, loc, ret, gh, fop, fpc, fstate, dev, fret, flog, fgh,
          release, digest_cache, gpc, gloc, gret, ggh,
          catalog, images_json, cpc, cloc, cret, cgh,
          platform, epc, eloc, devices, eret,
          slug, tracker, tret, tgh, entries, cache_enabled, del,
          clock, jobs, outputs, custom>>

\* what the download, the flash, a digest lookup, a board detection leave alone
notDownload == <<fvars, gvars, cvars, evars, uvars, tvars, xvars, lvars, nvars>>
notLookup == <<fvars, release, gpc, gloc, gret, ggh, cvars, evars, uvars, tvars,
               xvars, lvars, nvars>>
notFlash == <<dvars, gvars, cvars, evars, uvars, tvars, xvars, lvars, nvars>>
notDigest == <<dvars, fvars, cvars, evars, uvars, tvars, xvars, lvars, nvars>>
notCatalog == <<dvars, fvars, gvars, evars, uvars, tvars, xvars, lvars, nvars>>
notDevices == <<dvars, fvars, gvars, cvars, uvars, tvars, xvars, lvars, nvars>>
notSlug == <<dvars, fvars, gvars, cvars, evars, tvars, xvars, lvars, nvars>>
notTracker == <<dvars, fvars, gvars, cvars, evars, uvars, xvars, lvars, nvars>>
notDelete == <<dvars, fvars, gvars, cvars, evars, uvars, tvars, lvars, nvars>>
notJobs == <<dvars, fvars, gvars, cvars, evars, uvars, tvars, xvars, nvars>>
notCustom == <<dvars, fvars, gvars, cvars, evars, uvars, tvars, xvars, lvars>>

----------------------------------------------------------------------------
(* Bounds *)

\* chunks in a served body (one chunk = one stream item = one read)
MaxChunks == 2

\* blocks in the image dd copies to the device
MaxImage == 2

\* concurrent callers of a cached lookup (tasks of the async runtime)
NProcs == 2

\* versions of the remote metadata (release assets, board catalog) that
\* the server publishes during one run
MaxVersions == 2

\* physical-drive indices get_block_devices scans (the code scans 0..32)
MaxDisk == 6

\* indices of a fixture at which Windows exposes something (a disk, or a
\* node that fails to open)
MaxDevices == 2

\* characters in the text of a URL
MaxUrlLen == 4

\* characters in the body of a sidecar
MaxSidecarLen == 4

\* hexadecimal characters in a digest (the code's SHA-256 has 64)
DigestHexLen == 2

\* characters in a slug
MaxSlugLen == 4

\* bytes in a megabyte (1024 * 1024 in the code), the largest
\* log_interval_mb, the largest bytes_added of one update, and the cap on
\* the bytes a tracker processes
BytesPerMb == 2
MaxIntervalMb == 2
MaxAdded == 5
MaxProcessed == 10

\* milliseconds the clock advances through during one run
MaxClock == 2

\* characters in the file name of a custom image
MaxNameLen == 5

\* extents of a volume (a spanned volume has more than one)
MaxExtents == 2

----------------------------------------------------------------------------
(* Data *)

\* A chunk value; XzBad is a chunk the XZ decoder cannot decode.
XzBad == 2
Chunk == 0..2
Bodies == UNION {[1..n -> Chunk] : n \in 0..MaxChunks}

NoFile == <<-1>>

NoPath == "none"

\* Option values
None == <<>>
Some(v) == <<v>>

\* SHA-256 as the code computes it: an accumulator fed chunk by chunk
\* (Sha256::new, hasher.update, hasher.finalize). The stand-in digest is
\* the base-4 numeral of the chunks, which separates all contents.
Sha256New == 0
Sha256Update(h, c) == h * 4 + c + 1

RECURSIVE Sha256Of(_)
Sha256Of(s) ==
    IF s = <<>> THEN Sha256New
    ELSE Sha256Update(Sha256Of(SubSeq(s, 1, Len(s) - 1)), s[Len(s)])

\* The body with its last chunk altered (a corrupted copy).
Corrupted(s) ==
    IF s = <<>> THEN <<0>>
    ELSE [s EXCEPT ![Len(s)] = (s[Len(s)] + 1) % 3]

\* No digest could be obtained (lookup returned None, sidecar fetch failed).
NoDigest == 0 - 1

\* What a sidecar / the release metadata may publish for the file.
PublishedDigests == {Sha256Of(body), Sha256Of(Corrupted(body))}

\* XzReaderMt: the header is readable, and each good chunk decodes.
XzHeaderOk(c) == Len(c) > 0 /\ c[1] # XzBad
XzDecodeChunk(b) == 10 + b

----------------------------------------------------------------------------
(* File names: extract_filename's result is "a.img" or "a.img.xz" *)

Filename(o) == IF o.xz THEN "a.img.xz" ELSE "a.img"

\* filename.ends_with(".xz")
EndsWithXz(name) == name = "a.img.xz"

\* filename.trim_end_matches(".xz")
TrimXz(name) == IF EndsWithXz(name) THEN "a.img" ELSE name

\* both variants keyed on the trimmed name
OutputFilenameTrimmed(o) == TrimXz(Filename(o))

\* download_image keys on the trimmed name, download_image_raw on the name
OutputFilename(o) ==
    IF o.kind = "raw" THEN Filename(o) ELSE TrimXz(Filename(o))

OutputPath(o) == OutputFilename(o)
TempPath(o) == Filename(o) \o ".downloading"

\* custom-decompress/<base_filename>-<timestamp> (decompress.rs lines
\* 146-167), for the one timestamp of the run
LocalOutputPath == "custom-decompress/a.img-1"

Paths == {"a.img", "a.img.xz", "a.img.downloading", "a.img.xz.downloading",
          LocalOutputPath}
FinalPaths == {"a.img", "a.img.xz"}

Exists(p) == fs[p] # NoFile

\* cache::get_cached_image: the path of the file of that name in the cache
\* directory, or NoPath
get_cached_image(name) == IF Exists(name) THEN name ELSE NoPath

\* can_verify taken as true whatever the URL and sha_url are
CanVerifyAlways(o) == TRUE

\* is_github_url(url) || sha_url.is_some()
CanVerify(o) == o.github \/ o.sha

\* if is_github_url(url) { fetch_sha_from_github } else if let Some(sha_url)
\* { fetch_sha_from_url } (download.rs lines 196-201)
ExpectedFromGithub(o) == o.github

\* a comparison that accepts every computed digest
DigestMatchesAny(expected, actual) == actual >= 0

\* expected == actual (download.rs line 213)
DigestMatches(expected, actual) == expected = actual

----------------------------------------------------------------------------
(* extract_filename (download.rs lines 62-72) on the text of a URL *)

\* the characters of a URL text: two ordinary ones and the two separators
UrlChars == {"a", "b", "/", "?"}
UrlTexts == UNION {[1..n -> UrlChars] : n \in 0..MaxUrlLen}

\* url.split('?').next(): the text before the first '?'
url_path(text) ==
    LET Q == {i \in 1..Len(text) : text[i] = "?"}
    IN  IF Q = {} THEN text
        ELSE SubSeq(text, 1, (CHOOSE i \in Q : \A j \in Q : i <= j) - 1)

\* url_path.split('/').next_back(): the text after the last '/'
last_segment(path) ==
    LET S == {i \in 1..Len(path) : path[i] = "/"}
    IN  IF S = {} THEN path
        ELSE SubSeq(path, (CHOOSE i \in S : \A j \in S : i >= j) + 1, Len(path))

\* extract_filename: Some(segment) when the last segment is not empty,
\* else None (the error "Invalid URL: no filename")
extract_filename(text) ==
    LET filename == last_segment(url_path(text))
    IN  IF filename # <<>> THEN Some(filename) ELSE None

\* The URL of the given text as the download sees it: extract_filename
\* succeeds or not; the text holds no "github.com" and no ".xz".
UrlOfText(text) ==
    [where |-> "nowhere", xz |-> FALSE,
     valid |-> extract_filename(text) # None, text |-> text]

----------------------------------------------------------------------------
(* fetch_sha_from_url (download.rs lines 80-115) on the sidecar response *)

\* the characters of a sidecar body: lower-case hex digits, an upper-case
\* hex digit, a letter that is no hex digit, white space
SidecarChars == {"0", "a", "A", "g", " "}
SidecarTexts == UNION {[1..n -> SidecarChars] : n \in 0..MaxSidecarLen}

\* The responses to GET sha_url: the request fails, the status is no
\* success, the body cannot be read, or a body arrives.
SidecarResponses ==
    {[status |-> s, text |-> <<>>] : s \in {"transport", "status", "unreadable"}}
    \cup {[status |-> "ok", text |-> x] : x \in SidecarTexts}

\* the environment is not told what the sidecar holds: any digest, or a
\* failure, may come back
NoSidecar == [status |-> "any", text |-> <<>>]

\* char::is_whitespace, char::is_ascii_hexdigit, to_lowercase
is_whitespace(c) == c = " "
is_ascii_hexdigit(c) == c \in {"0", "a", "A"}
to_lowercase(x) == [i \in 1..Len(x) |-> IF x[i] = "A" THEN "a" ELSE x[i]]

\* content.split_whitespace().next(): the first maximal run of characters
\* that are not white space, None when there is none
split_whitespace_next(content) ==
    LET N == {i \in 1..Len(content) : ~is_whitespace(content[i])}
    IN  IF N = {} THEN None
        ELSE LET b == CHOOSE i \in N : \A j \in N : i <= j
                 W == {i \in b..Len(content) : is_whitespace(content[i])}
                 e == IF W = {} THEN Len(content)
                      ELSE (CHOOSE i \in W : \A j \in W : i <= j) - 1
             IN  Some(SubSeq(content, b, e))

\* format!("{:x}", digest): the digest as DigestHexLen lower-case digits
\* (of base 2 here, "0" and "a"), and the digest such a text denotes
RECURSIVE Pow2(_)
Pow2(n) == IF n = 0 THEN 1 ELSE 2 * Pow2(n - 1)

Hex(d) ==
    [i \in 1..DigestHexLen |->
        IF (d \div Pow2(DigestHexLen - i)) % 2 = 1 THEN "a" ELSE "0"]

RECURSIVE HexValue(_)
HexValue(x) ==
    IF x = <<>> THEN 0
    ELSE 2 * HexValue(SubSeq(x, 1, Len(x) - 1))
           + (IF x[Len(x)] = "a" THEN 1 ELSE 0)

\* line 109 without the test of the length
IsSha256HexOfAnyLength(hash) ==
    \A i \in 1..Len(hash) : is_ascii_hexdigit(hash[i])

\* line 109: hash.len() == 64 and every character is a hex digit
IsSha256Hex(hash) ==
    /\ Len(hash) = DigestHexLen
    /\ \A i \in 1..Len(hash) : is_ascii_hexdigit(hash[i])

\* fetch_sha_from_url: the digest the sidecar names, NoDigest for each of
\* its errors
fetch_sha_from_url(response) ==
    IF response.status # "ok" THEN NoDigest
    ELSE LET token == split_whitespace_next(response.text)
         IN  IF token = None THEN NoDigest
             ELSE LET hash == to_lowercase(token[1])
                  IN  IF ~IsSha256Hex(hash) THEN NoDigest
                      ELSE HexValue(hash)

----------------------------------------------------------------------------
(* The digest of a release asset (images/mod.rs lines 88-112, 137-161;
   download.rs lines 117-131) *)

\* the characters of a "digest" field: the prefix "sha256:" (one item), a
\* lower-case and an upper-case hex digit, a letter that is no hex digit
AssetChars == {"sha256:", "a", "A", "g"}
AssetTexts == UNION {[1..n -> AssetChars] : n \in 0..(DigestHexLen + 1)}

\* What the release holds for the file: no asset of its name, an asset
\* without a "digest" string, an asset with one.
ReleaseAssets ==
    {[name |-> "absent", digest |-> None]}
    \cup {[name |-> "present", digest |-> d] :
             d \in {None} \cup {Some(x) : x \in AssetTexts}}

\* the environment is not told what the release holds: any digest, or
\* none, may come back
NoAsset == [name |-> "any", digest |-> None]

\* digest.strip_prefix("sha256:"): None when the text does not start so
strip_prefix(digest) ==
    IF digest # <<>> /\ digest[1] = "sha256:"
    THEN Some(SubSeq(digest, 2, Len(digest)))
    ELSE None

\* lines 98-112 with the test of line 107 missing: every text is inserted
digest_of_asset_unvalidated(digest) ==
    LET stripped == strip_prefix(digest)
        hash == IF stripped # None THEN to_lowercase(stripped[1])
                ELSE to_lowercase(digest)
    IN  Some(hash)

\* lines 98-112: the prefix is removed if present, the text lower-cased,
\* and inserted into the map when it is 64 hex digits
digest_of_asset(digest) ==
    LET stripped == strip_prefix(digest)
        hash == IF stripped # None THEN to_lowercase(stripped[1])
                ELSE to_lowercase(digest)
    IN  IF IsSha256Hex(hash) THEN Some(hash) ELSE None

\* get_digest_for_file: None when fetch_github_digests returned Err and
\* when the map has no entry for the file name
get_digest_for_file(fetched, entry) ==
    IF ~fetched THEN None
    ELSE IF entry.name = "absent" THEN None
    ELSE IF entry.digest = None THEN None
    ELSE digest_of_asset(entry.digest[1])

\* fetch_sha_from_github: the digest, or the error "No SHA256 digest found
\* for file"
fetch_sha_from_github(fetched, entry) ==
    LET hash == get_digest_for_file(fetched, entry)
    IN  IF hash = None THEN NoDigest ELSE HexValue(hash[1])

----------------------------------------------------------------------------
(* DownloadState *)

DownloadStateNew ==
    [total_bytes |-> 0, downloaded_bytes |-> 0, is_verifying_sha |-> FALSE,
     is_decompressing |-> FALSE, is_cancelled |-> FALSE, output_path |-> NoPath]

\* reset() without the store into is_cancelled
ResetWithoutCancelled(s) ==
    [s EXCEPT !.total_bytes = 0, !.downloaded_bytes = 0,
              !.is_verifying_sha = FALSE, !.is_decompressing = FALSE]

\* reset() stores the two counters and the three flags; output_path is not
\* touched
Reset(s) ==
    [s EXCEPT !.total_bytes = 0, !.downloaded_bytes = 0,
              !.is_verifying_sha = FALSE, !.is_decompressing = FALSE,
              !.is_cancelled = FALSE]

LocNew == [received |-> 0, hasher |-> 0, hashed |-> 0, expected |-> NoDigest,
           actual |-> NoDigest, verr |-> "", decoded |-> 0]

\* What the operation in flight has done so far: where it stood when
\* cancel was first requested, whether the cache lookup hit, the HTTP
\* clients built, requests sent, digest lookups made, temp files created;
\* valid: the final paths a download has completed successfully at;
\* path0: output_path as it was when the operation started; second: a
\* second command ran on the state while the operation was in flight;
\* metadata: how the digest lookup got the release's digests ("cached",
\* "fetched", "failed").
GhNew == [cancelAt |-> "none", cacheHit |-> FALSE, client |-> FALSE,
          requests |-> 0, digests |-> 0, temp |-> FALSE, valid |-> {},
          path0 |-> NoPath, second |-> FALSE, metadata |-> "none"]

NoOp == [kind |-> "none", github |-> FALSE, sha |-> FALSE, xz |-> FALSE,
         valid |-> TRUE]

\* A URL: where the text "github.com" occurs in it (as its host, elsewhere
\* in it, nowhere), whether its last path segment ends in ".xz", and
\* whether it has a last path segment at all.
Urls == [where : {"host", "elsewhere", "nowhere"}, xz : BOOLEAN, valid : {TRUE}]
          \cup {[where |-> "nowhere", xz |-> FALSE, valid |-> FALSE]}

\* url.contains("github.com")
is_github_url(u) == u.where # "nowhere"

\* the URL belongs to the canonical release host
OnReleaseHost(u) == u.where = "host"

\* download_image(url, sha_url) or download_image_raw(url, sha_url)
Operation(kind, sha) ==
    [kind |-> kind, github |-> is_github_url(url), sha |-> sha, xz |-> url.xz,
     valid |-> url.valid]

Kinds == {"image", "raw"}

\* the operation returns r (and p on success)
Return(r, p) ==
    /\ pc' = "idle"
    /\ ret' = [result |-> r, path |-> p]

Ok == "Ok"
ErrCancelled == "Download cancelled"
ErrVerifyPrefix == "SHA256 verification failed: "
ErrVerifyCancelled == "SHA256 verification cancelled"
ErrSha256Mismatch == "SHA256 mismatch"
ErrDecompressCancelled == "Decompression cancelled"
ErrNoDigest == "No SHA256 digest found for file"

----------------------------------------------------------------------------
(* download_image / download_image_raw *)

\* Lines 239-264 with the early return of the cache hit missing: the
\* cached path is recorded and the download goes on to the network.
download_start_without_cache_return(o) ==
    /\ UNCHANGED notDownload
    /\ pc = "idle"
    /\ op' = o
    /\ loc' = LocNew
    /\ UNCHANGED <<url, body, sidecar, asset, fs>>
    /\ LET s == Reset(state)
           cached == get_cached_image(OutputFilename(o))
           g == [GhNew EXCEPT !.valid = gh.valid, !.path0 = state.output_path]
       IN  IF ~o.valid
           THEN /\ state' = s
                /\ gh' = g
                /\ Return("Invalid URL: no filename", NoPath)
           ELSE /\ state' = IF cached # NoPath
                            THEN [s EXCEPT !.output_path = cached]
                            ELSE s
                /\ gh' = [g EXCEPT !.cacheHit = (cached # NoPath),
                                   !.client = TRUE]
                /\ pc' = "send"
                /\ ret' = [result |-> "pending", path |-> NoPath]

\* Lines 239-264 (392-414): reset, extract_filename, the cache check, and
\* on a miss create_dir_all and Client::builder().build().
download_start(o) ==
    /\ UNCHANGED notDownload
    /\ pc = "idle"
    /\ op' = o
    /\ loc' = LocNew
    /\ UNCHANGED <<url, body, sidecar, asset, fs>>
    /\ LET s == Reset(state)
           cached == get_cached_image(OutputFilename(o))
           g == [GhNew EXCEPT !.valid = gh.valid, !.path0 = state.output_path]
       IN  IF ~o.valid
           THEN /\ state' = s
                /\ gh' = g
                /\ Return("Invalid URL: no filename", NoPath)
           ELSE IF cached # NoPath
           THEN /\ state' = [s EXCEPT !.output_path = cached]
                /\ gh' = [g EXCEPT !.cacheHit = TRUE]
                /\ Return(Ok, cached)
           ELSE /\ state' = s
                /\ \E fail \in {"none", "dir", "client"} :
                      CASE fail = "dir" ->
                             /\ gh' = g
                             /\ Return("Failed to create output directory", NoPath)
                        [] fail = "client" ->
                             /\ gh' = g
                             /\ Return("Failed to create HTTP client", NoPath)
                        [] OTHER ->
                             /\ gh' = [g EXCEPT !.client = TRUE]
                             /\ pc' = "send"
                             /\ ret' = [result |-> "pending", path |-> NoPath]

\* Lines 268-295 (418-445): the request is answered; content length is
\* stored and the temp file created (truncating an older one).
download_send ==
    /\ UNCHANGED notDownload
    /\ pc = "send"
    /\ UNCHANGED <<url, body, sidecar, asset, op, loc>>
    /\ \E out \in {"transport", "status", "tempfail", "ok"}, known \in BOOLEAN :
          LET total == IF known THEN Len(body) ELSE 0
              g == [gh EXCEPT !.requests = @ + 1]
          IN  CASE out = "transport" ->
                     /\ known
                     /\ gh' = g
                     /\ Return("Failed to start download", NoPath)
                     /\ UNCHANGED <<state, fs>>
                [] out = "status" ->
                     /\ known
                     /\ gh' = g
                     /\ Return("Download failed with status", NoPath)
                     /\ UNCHANGED <<state, fs>>
                [] out = "tempfail" ->
                     /\ gh' = g
                     /\ state' = [state EXCEPT !.total_bytes = total]
                     /\ Return("Failed to create temp file", NoPath)
                     /\ UNCHANGED fs
                [] OTHER ->
                     /\ gh' = [g EXCEPT !.temp = TRUE]
                     /\ state' = [state EXCEPT !.total_bytes = total]
                     /\ fs' = [fs EXCEPT ![TempPath(op)] = <<>>]
                     /\ pc' = "recv"
                     /\ UNCHANGED ret

\* Lines 308-313 (458-463): the cancelled branch of the receive loop.
download_recv_cancelled ==
    /\ fs' = [fs EXCEPT ![TempPath(op)] = NoFile]
    /\ Return(ErrCancelled, NoPath)
    /\ UNCHANGED <<state, loc>>

\* Lines 307-323 with the length of the chunk stored in downloaded_bytes
\* in place of the running total.
download_recv_chunk_storing_chunk_len ==
    /\ UNCHANGED notDownload
    /\ pc = "recv"
    /\ loc.received < Len(body)
    /\ UNCHANGED <<url, body, sidecar, asset, op, gh>>
    /\ IF state.is_cancelled
       THEN download_recv_cancelled
       ELSE \E ok \in BOOLEAN :
              IF ok
              THEN /\ fs' = [fs EXCEPT ![TempPath(op)] =
                                 Append(@, body[loc.received + 1])]
                   /\ loc' = [loc EXCEPT !.received = @ + 1]
                   /\ state' = [state EXCEPT !.downloaded_bytes = 1]
                   /\ UNCHANGED <<pc, ret>>
              ELSE /\ Return("Failed to write chunk", NoPath)
                   /\ UNCHANGED <<fs, loc, state>>

\* Lines 307-323 (457-473): stream.next() yields a chunk.
download_recv_chunk ==
    /\ UNCHANGED notDownload
    /\ pc = "recv"
    /\ loc.received < Len(body)
    /\ UNCHANGED <<url, body, sidecar, asset, op, gh>>
    /\ IF state.is_cancelled
       THEN download_recv_cancelled
       ELSE \E ok \in BOOLEAN :
              IF ok
              THEN /\ fs' = [fs EXCEPT ![TempPath(op)] =
                                 Append(@, body[loc.received + 1])]
                   /\ loc' = [loc EXCEPT !.received = @ + 1]
                   /\ state' = [state EXCEPT !.downloaded_bytes =
                                    loc.received + 1]
                   /\ UNCHANGED <<pc, ret>>
              ELSE /\ Return("Failed to write chunk", NoPath)
                   /\ UNCHANGED <<fs, loc, state>>

\* Lines 307-315 with the temp file removed on a transport error too.
download_recv_error_removing_temp ==
    /\ UNCHANGED notDownload
    /\ pc = "recv"
    /\ UNCHANGED <<url, body, sidecar, asset, op, gh>>
    /\ IF state.is_cancelled
       THEN download_recv_cancelled
       ELSE /\ fs' = [fs EXCEPT ![TempPath(op)] = NoFile]
            /\ Return("Download error", NoPath)
            /\ UNCHANGED <<loc, state>>

\* Lines 307-315 (457-465): stream.next() yields a transport error.
download_recv_error ==
    /\ UNCHANGED notDownload
    /\ pc = "recv"
    /\ UNCHANGED <<url, body, sidecar, asset, op, gh>>
    /\ IF state.is_cancelled
       THEN download_recv_cancelled
       ELSE /\ Return("Download error", NoPath)
            /\ UNCHANGED <<fs, loc, state>>

\* verify_sha256 returns Err(e) to its caller (line 337 / 487).
verify_err(e) ==
    /\ pc' = "verify_failed"
    /\ loc' = [loc EXCEPT !.verr = e]

\* Lines 307, 325-337 and 190-193: the stream ends; the verifying flag is
\* raised when a method is available and verify_sha256 is entered.
download_recv_end ==
    /\ UNCHANGED notDownload
    /\ pc = "recv"
    /\ loc.received = Len(body)
    /\ UNCHANGED <<url, body, sidecar, asset, fs, op, ret, gh>>
    /\ IF CanVerify(op)
       THEN /\ state' = [state EXCEPT !.is_verifying_sha = TRUE]
            /\ IF state.is_cancelled
               THEN verify_err(ErrVerifyCancelled)
               ELSE pc' = "fetch" /\ UNCHANGED loc
       ELSE /\ pc' = "place"
            /\ UNCHANGED <<state, loc>>

\* Lines 196-204: what fetch_sha_from_github or fetch_sha_from_url may
\* hand to verify_sha256; fetched: fetch_github_digests returned Ok
ExpectedDigests(fetched) ==
    IF ExpectedFromGithub(op)
    THEN IF asset = NoAsset
         THEN {NoDigest} \cup PublishedDigests
         ELSE {fetch_sha_from_github(fetched, asset)}
    ELSE IF sidecar = NoSidecar
         THEN {NoDigest} \cup PublishedDigests
         ELSE {fetch_sha_from_url(sidecar)}

\* the release metadata is looked up by this operation
LooksUpRelease == ExpectedFromGithub(op) /\ asset # NoAsset

\* Lines 195-211 and 134-145, images/mod.rs lines 50-56 and 60-125: the
\* expected digest arrives (release metadata for a GitHub URL, taken from
\* DIGEST_CACHE or fetched and cached; else the sidecar), cancellation is
\* checked again and the temp file is opened for hashing.
verify_fetch ==
    /\ UNCHANGED notLookup
    /\ pc = "fetch"
    /\ UNCHANGED <<url, body, sidecar, asset, fs, op, ret, state>>
    /\ \E out \in {"client", "transport", "status", "parse", "ok"},
          openOk \in BOOLEAN :
          LET cached == digest_cache # None
              fetched == cached \/ out = "ok"
              g == IF ExpectedFromGithub(op)
                   THEN [gh EXCEPT !.digests = @ + 1]
                   ELSE [gh EXCEPT !.requests = @ + 1]
          IN  /\ (~LooksUpRelease \/ cached) => out = "ok"
              /\ digest_cache' = IF LooksUpRelease /\ ~cached /\ out = "ok"
                                 THEN Some(release)
                                 ELSE digest_cache
              /\ gh' = IF ~LooksUpRelease THEN g
                       ELSE [g EXCEPT !.metadata =
                                IF cached THEN "cached"
                                ELSE IF out = "ok" THEN "fetched"
                                ELSE "failed"]
              /\ \E d \in ExpectedDigests(fetched) :
                    IF d = NoDigest
                    THEN /\ openOk
                         /\ verify_err(IF ExpectedFromGithub(op)
                                       THEN ErrNoDigest
                                       ELSE "Failed to fetch SHA")
                    ELSE IF state.is_cancelled
                    THEN /\ openOk
                         /\ verify_err(ErrVerifyCancelled)
                    ELSE IF ~openOk
                    THEN verify_err("Failed to open file for SHA")
                    ELSE /\ pc' = "hash"
                         /\ loc' = [loc EXCEPT !.expected = d,
                                               !.hasher = Sha256New,
                                               !.hashed = 0]

\* Lines 147-176 with the test of is_cancelled (lines 148-152) missing.
verify_hash_without_poll ==
    /\ UNCHANGED notDownload
    /\ pc = "hash"
    /\ UNCHANGED <<url, body, sidecar, asset, fs, op, ret, gh>>
    /\ \E ok \in BOOLEAN :
          LET file == fs[TempPath(op)] IN
          IF ~ok
          THEN verify_err("Failed to read file for SHA") /\ UNCHANGED state
          ELSE IF loc.hashed < Len(file)
          THEN /\ loc' = [loc EXCEPT
                            !.hasher = Sha256Update(@, file[loc.hashed + 1]),
                            !.hashed = @ + 1]
               /\ UNCHANGED <<pc, state>>
          ELSE IF DigestMatches(loc.expected, loc.hasher)
          THEN /\ loc' = [loc EXCEPT !.actual = loc.hasher]
               /\ state' = [state EXCEPT !.is_verifying_sha = FALSE]
               /\ pc' = "place"
          ELSE /\ pc' = "verify_failed"
               /\ loc' = [loc EXCEPT !.actual = loc.hasher,
                                     !.verr = ErrSha256Mismatch]
               /\ UNCHANGED state

\* Lines 147-176 and 213-227, 338-352: one iteration of the hashing loop;
\* at end of file the digests are compared.
verify_hash ==
    /\ UNCHANGED notDownload
    /\ pc = "hash"
    /\ UNCHANGED <<url, body, sidecar, asset, fs, op, ret, gh>>
    /\ IF state.is_cancelled
       THEN verify_err(ErrVerifyCancelled) /\ UNCHANGED state
       ELSE \E ok \in BOOLEAN :
              LET file == fs[TempPath(op)] IN
              IF ~ok
              THEN verify_err("Failed to read file for SHA") /\ UNCHANGED state
              ELSE IF loc.hashed < Len(file)
              THEN /\ loc' = [loc EXCEPT
                                !.hasher = Sha256Update(@, file[loc.hashed + 1]),
                                !.hashed = @ + 1]
                   /\ UNCHANGED <<pc, state>>
              ELSE IF DigestMatches(loc.expected, loc.hasher)
              THEN /\ loc' = [loc EXCEPT !.actual = loc.hasher]
                   /\ state' = [state EXCEPT !.is_verifying_sha = FALSE]
                   /\ pc' = "place"
              ELSE /\ pc' = "verify_failed"
                   /\ loc' = [loc EXCEPT !.actual = loc.hasher,
                                         !.verr = ErrSha256Mismatch]
                   /\ UNCHANGED state

\* Lines 341-350 with remove_file(&temp_path) left out.
verify_failed_keeping_temp ==
    /\ UNCHANGED notDownload
    /\ pc = "verify_failed"
    /\ UNCHANGED <<url, body, sidecar, asset, op, loc, gh, fs>>
    /\ state' = [state EXCEPT !.is_verifying_sha = FALSE]
    /\ IF state.is_cancelled
       THEN Return(ErrCancelled, NoPath)
       ELSE Return(ErrVerifyPrefix \o loc.verr, NoPath)

\* Lines 341-350 (491-498): verification returned an error.
verify_failed ==
    /\ UNCHANGED notDownload
    /\ pc = "verify_failed"
    /\ UNCHANGED <<url, body, sidecar, asset, op, loc, gh>>
    /\ state' = [state EXCEPT !.is_verifying_sha = FALSE]
    /\ fs' = [fs EXCEPT ![TempPath(op)] = NoFile]
    /\ IF state.is_cancelled
       THEN Return(ErrCancelled, NoPath)
       ELSE Return(ErrVerifyPrefix \o loc.verr, NoPath)

\* Lines 377-379 run before the file is in place.
download_finish_before_place(files) ==
    /\ UNCHANGED fs
    /\ state' = [state EXCEPT !.output_path = OutputPath(op)]
    /\ gh' = [gh EXCEPT !.valid = @ \cup {OutputPath(op)}]
    /\ Return(Ok, OutputPath(op))

\* Lines 377-379 (510-512): the final path is recorded and returned.
download_finish(files) ==
    /\ fs' = files
    /\ state' = [state EXCEPT !.output_path = OutputPath(op)]
    /\ gh' = [gh EXCEPT !.valid = @ \cup {OutputPath(op)}]
    /\ Return(Ok, OutputPath(op))

\* Lines 357-375 (506-508), 31-51 and 100-105: an .xz image starts
\* decompressing into the final path; anything else is renamed to it.
download_place ==
    /\ UNCHANGED notDownload
    /\ pc = "place"
    /\ UNCHANGED <<url, body, sidecar, asset, op>>
    /\ IF op.kind = "image" /\ EndsWithXz(Filename(op))
       THEN /\ state' = [state EXCEPT !.is_decompressing = TRUE]
            /\ UNCHANGED gh
            /\ \E fail \in {"none", "open", "create"} :
                  CASE fail = "open" ->
                         /\ Return("Failed to open input file", NoPath)
                         /\ UNCHANGED <<fs, loc>>
                    [] fail = "create" ->
                         /\ XzHeaderOk(fs[TempPath(op)])
                         /\ Return("Failed to create output file", NoPath)
                         /\ UNCHANGED <<fs, loc>>
                    [] OTHER ->
                         IF ~XzHeaderOk(fs[TempPath(op)])
                         THEN /\ Return("Failed to create XZ decoder", NoPath)
                              /\ UNCHANGED <<fs, loc>>
                         ELSE /\ fs' = [fs EXCEPT ![OutputPath(op)] = <<>>]
                              /\ loc' = [loc EXCEPT !.decoded = 0]
                              /\ pc' = "decompress"
                              /\ UNCHANGED ret
       ELSE /\ UNCHANGED loc
            /\ \E ok \in BOOLEAN :
                  IF ok
                  THEN download_finish([fs EXCEPT
                                          ![OutputPath(op)] = fs[TempPath(op)],
                                          ![TempPath(op)] = NoFile])
                  ELSE /\ Return("Failed to move file", NoPath)
                       /\ UNCHANGED <<fs, state, gh>>

\* decompress.rs lines 108-112 with the remove_file missing
decompress_cancelled_keeping_output(output_path) ==
    /\ fs' = fs
    /\ Return(ErrDecompressCancelled, NoPath)

\* decompress.rs lines 108-112: the loop observed is_cancelled; the sink
\* is dropped, the output file removed and the error returned
decompress_cancelled(output_path) ==
    /\ fs' = [fs EXCEPT ![output_path] = NoFile]
    /\ Return(ErrDecompressCancelled, NoPath)

\* decompress.rs lines 107-131 and download.rs lines 366-379: one
\* iteration of the decompression loop; at end of stream the sink is
\* flushed, the temp file removed and the final path recorded.
decompress_step ==
    /\ UNCHANGED notDownload
    /\ pc = "decompress"
    /\ UNCHANGED <<url, body, sidecar, asset, op>>
    /\ LET input == fs[TempPath(op)]
           i == loc.decoded
       IN  IF state.is_cancelled
           THEN /\ decompress_cancelled(OutputPath(op))
                /\ UNCHANGED <<state, loc, gh>>
           ELSE IF i < Len(input) /\ input[i + 1] = XzBad
           THEN /\ Return("xz decompression error", NoPath)
                /\ UNCHANGED <<fs, state, loc, gh>>
           ELSE \E ok \in BOOLEAN :
                  IF i < Len(input)
                  THEN IF ok
                       THEN /\ fs' = [fs EXCEPT ![OutputPath(op)] =
                                         Append(@, XzDecodeChunk(input[i + 1]))]
                            /\ loc' = [loc EXCEPT !.decoded = @ + 1]
                            /\ UNCHANGED <<pc, ret, state, gh>>
                       ELSE /\ Return("Failed to write decompressed data", NoPath)
                            /\ UNCHANGED <<fs, state, loc, gh>>
                  ELSE IF ok
                       THEN /\ download_finish([fs EXCEPT ![TempPath(op)] = NoFile])
                            /\ UNCHANGED loc
                       ELSE /\ Return("Failed to flush output", NoPath)
                            /\ UNCHANGED <<fs, state, loc, gh>>

----------------------------------------------------------------------------
(* decompress_custom_image / decompress_local_file *)

\* the user's file, named a.img.xz or (no supported extension) a.img; it
\* holds the bytes `body`
LocalOperation(xz) ==
    [kind |-> "local", github |-> FALSE, sha |-> FALSE, xz |-> xz,
     valid |-> TRUE]

\* custom_image.rs lines 47-54 and decompress.rs lines 140-212 (31-51,
\* 100-105): reset, the output path in the cache directory, the early
\* return when it exists, the flag and the size, and the decoder chosen
\* by extension opened on the input.
local_start(xz) ==
    /\ UNCHANGED notDownload
    /\ pc = "idle"
    /\ op' = LocalOperation(xz)
    /\ loc' = LocNew
    /\ gh' = [GhNew EXCEPT !.valid = gh.valid, !.path0 = state.output_path]
    /\ UNCHANGED <<url, body, sidecar, asset>>
    /\ \E fail \in {"none", "dir", "open", "create"}, sized \in BOOLEAN :
          LET s == Reset(state)
              t == [s EXCEPT !.is_decompressing = TRUE,
                             !.total_bytes = IF sized THEN Len(body) ELSE 0]
          IN  IF fail = "dir"
              THEN /\ sized
                   /\ state' = s
                   /\ Return("Failed to create cache directory", NoPath)
                   /\ UNCHANGED fs
              ELSE IF Exists(LocalOutputPath)
              THEN /\ sized /\ fail = "none"
                   /\ state' = s
                   /\ Return(Ok, LocalOutputPath)
                   /\ UNCHANGED fs
              ELSE IF ~xz
              THEN /\ fail = "none"
                   /\ state' = t
                   /\ Return("Unsupported compression format", NoPath)
                   /\ UNCHANGED fs
              ELSE IF fail = "open"
              THEN /\ state' = t
                   /\ Return("Failed to open input file", NoPath)
                   /\ UNCHANGED fs
              ELSE IF ~XzHeaderOk(body)
              THEN /\ fail = "none"
                   /\ state' = t
                   /\ Return("Failed to create XZ decoder", NoPath)
                   /\ UNCHANGED fs
              ELSE IF fail = "create"
              THEN /\ state' = t
                   /\ Return("Failed to create output file", NoPath)
                   /\ UNCHANGED fs
              ELSE /\ state' = t
                   /\ fs' = [fs EXCEPT ![LocalOutputPath] = <<>>]
                   /\ pc' = "local"
                   /\ ret' = [result |-> "pending", path |-> NoPath]

\* decompress.rs lines 107-131 with write_all (lines 122-124) missing: the
\* chunk read from the decoder is dropped.
local_step_dropping_chunk ==
    /\ UNCHANGED notDownload
    /\ pc = "local"
    /\ UNCHANGED <<url, body, sidecar, asset, op, gh>>
    /\ LET i == loc.decoded
       IN  IF state.is_cancelled
           THEN /\ decompress_cancelled(LocalOutputPath)
                /\ UNCHANGED <<state, loc>>
           ELSE IF i < Len(body) /\ body[i + 1] = XzBad
           THEN /\ Return("xz decompression error", NoPath)
                /\ UNCHANGED <<fs, state, loc>>
           ELSE IF i < Len(body)
           THEN /\ loc' = [loc EXCEPT !.decoded = @ + 1]
                /\ UNCHANGED <<fs, pc, ret, state>>
           ELSE \E ok \in BOOLEAN :
                  IF ok
                  THEN /\ state' = [state EXCEPT !.is_decompressing = FALSE]
                       /\ Return(Ok, LocalOutputPath)
                       /\ UNCHANGED <<fs, loc>>
                  ELSE /\ Return("Failed to flush output", NoPath)
                       /\ UNCHANGED <<fs, state, loc>>

\* decompress.rs lines 107-131 and 214-219: one iteration of the
\* decompression loop; at end of stream the sink is flushed, the flag
\* cleared and the output path returned.
local_step ==
    /\ UNCHANGED notDownload
    /\ pc = "local"
    /\ UNCHANGED <<url, body, sidecar, asset, op, gh>>
    /\ LET i == loc.decoded
       IN  IF state.is_cancelled
           THEN /\ decompress_cancelled(LocalOutputPath)
                /\ UNCHANGED <<state, loc>>
           ELSE IF i < Len(body) /\ body[i + 1] = XzBad
           THEN /\ Return("xz decompression error", NoPath)
                /\ UNCHANGED <<fs, state, loc>>
           ELSE \E ok \in BOOLEAN :
                  IF i < Len(body)
                  THEN IF ok
                       THEN /\ fs' = [fs EXCEPT ![LocalOutputPath] =
                                         Append(@, XzDecodeChunk(body[i + 1]))]
                            /\ loc' = [loc EXCEPT !.decoded = @ + 1]
                            /\ UNCHANGED <<pc, ret, state>>
                       ELSE /\ Return("Failed to write decompressed data", NoPath)
                            /\ UNCHANGED <<fs, state, loc>>
                  ELSE IF ok
                       THEN /\ state' = [state EXCEPT !.is_decompressing = FALSE]
                            /\ Return(Ok, LocalOutputPath)
                            /\ UNCHANGED <<fs, loc>>
                       ELSE /\ Return("Failed to flush output", NoPath)
                            /\ UNCHANGED <<fs, state, loc>>

\* cancel_operation: the UI sets the cancellation flag of the download.
cancel_download ==
    /\ UNCHANGED notDownload
    /\ ~state.is_cancelled
    /\ state' = [state EXCEPT !.is_cancelled = TRUE]
    /\ gh' = [gh EXCEPT !.cancelAt =
                 IF pc # "idle" /\ @ = "none" THEN pc ELSE @]
    /\ UNCHANGED <<url, body, sidecar, asset, fs, op, pc, loc, ret>>

\* A second download_image command, for a URL without a file name, invoked
\* while an operation is in flight on the shared DownloadState (there is
\* no lock): lines 239-241, reset() and the error of extract_filename,
\* which goes to the second command's own caller.
second_start ==
    /\ UNCHANGED notDownload
    /\ pc # "idle"
    /\ state' = Reset(state)
    /\ gh' = [gh EXCEPT !.second = TRUE]
    /\ UNCHANGED <<url, body, sidecar, asset, fs, op, pc, loc, ret>>

----------------------------------------------------------------------------
(* FlashState and flash_image (flash/linux.rs) *)

\* FlashState::new: the counters flash_image stores into, and the
\* cancellation flag of the flash
FlashStateNew ==
    [total_bytes |-> 0, written_bytes |-> 0, is_cancelled |-> FALSE]

\* FlashState::reset zeroes the counters and the flag
FlashReset(s) == FlashStateNew

FlashOk == "Ok"
ErrUserCancelled == "Operation cancelled by user"
ErrFlashFailed == "Flash failed"
ErrUnmount == "Failed to unmount device"
ErrVerifyMismatch == "Verification failed: data mismatch"
ErrVerifyRead == "Failed to read device"
ErrFlashVerifyCancelled == "Verification cancelled"

\* What the flash in flight has seen: where it stood, and how many blocks
\* dd had written, when cancel was requested; what unmount_device and
\* verify_written_data returned; whether sync_device ran.
\* exit: why the pkexec dd helper exited ("success", "declined": consent
\* dismissed or authentication refused, "error": dd itself failed).
FghNew == [cancelAt |-> "none", cancelWritten |-> 0, unmount |-> "none",
           synced |-> FALSE, vres |-> "none", exit |-> "none"]

\* The ways the pkexec dd helper exits: its cause and its stderr, a
\* sequence of phrases. pkexec reports a dismissed dialog and a refused
\* authentication; dd reports its own failure and quotes the if= / of=
\* paths, which are the caller's and may hold any text.
HelperExits ==
    {[cause |-> "success", stderr |-> <<>>],
     [cause |-> "declined", stderr |-> <<"Error executing command:", "Request ", "dismissed">>],
     [cause |-> "declined", stderr |-> <<"Error executing command:", "Not authorized">>],
     [cause |-> "error", stderr |-> <<"dd: error writing", "No space left on device">>],
     [cause |-> "error", stderr |-> <<"dd: failed to open", "dismissed", ".img">>]}

\* stderr.contains(phrase)
Contains(stderr, phrase) == \E i \in 1..Len(stderr) : stderr[i] = phrase

FlashReturn(r) ==
    /\ fpc' = "idle"
    /\ fret' = r

\* Lines 26-40: reset, then the image size is read and recorded.
flash_start(verify, size) ==
    /\ UNCHANGED notFlash
    /\ fpc = "idle"
    /\ fop' = [verify |-> verify, size |-> size]
    /\ dev' = [written |-> 0, verified |-> 0]
    /\ fgh' = FghNew
    /\ \E ok \in BOOLEAN :
          IF ok
          THEN /\ fstate' = [FlashReset(fstate) EXCEPT !.total_bytes = size]
               /\ flog' = <<"reset", "size">>
               /\ fpc' = "unmounting"
               /\ fret' = "pending"
          ELSE /\ fstate' = FlashReset(fstate)
               /\ flog' = <<"reset">>
               /\ FlashReturn("Failed to get image size")

\* Lines 49-70 with unmount_device returning Err ignored (let _ = ...).
flash_unmount_ignoring_failure ==
    /\ UNCHANGED notFlash
    /\ fpc = "unmounting"
    /\ UNCHANGED <<fop, fstate, dev, fret>>
    /\ \E out \in {"ok", "unmount_failed"} :
          /\ fgh' = [fgh EXCEPT !.unmount =
                        IF out = "ok" THEN "ok" ELSE "failed"]
          /\ flog' = flog \o <<"unmount", "write">>
          /\ fpc' = "writing"

\* Lines 49-70: unmount_device returns; its error is returned, and on
\* success pkexec dd is started.
flash_unmount ==
    /\ UNCHANGED notFlash
    /\ fpc = "unmounting"
    /\ UNCHANGED <<fop, fstate, dev>>
    /\ \E out \in {"ok", "unmount_failed", "spawn_failed"} :
          CASE out = "unmount_failed" ->
                 /\ fgh' = [fgh EXCEPT !.unmount = "failed"]
                 /\ flog' = Append(flog, "unmount")
                 /\ FlashReturn(ErrUnmount)
            [] out = "spawn_failed" ->
                 /\ fgh' = [fgh EXCEPT !.unmount = "ok"]
                 /\ flog' = Append(flog, "unmount")
                 /\ FlashReturn("Failed to start privileged write")
            [] OTHER ->
                 /\ fgh' = [fgh EXCEPT !.unmount = "ok"]
                 /\ flog' = flog \o <<"unmount", "write">>
                 /\ fpc' = "writing"
                 /\ UNCHANGED fret

\* The dd helper copies one bs=4M block; flash_image is blocked in
\* Command::output() (lines 58-66) and reads nothing meanwhile.
dd_block ==
    /\ UNCHANGED notFlash
    /\ fpc = "writing"
    /\ dev.written < fop.size
    /\ dev' = [dev EXCEPT !.written = @ + 1]
    /\ UNCHANGED <<fop, fpc, fstate, fret, flog, fgh>>

\* Lines 72-83: the helper exits; a failure is classified by its stderr,
\* a success stores written_bytes.
flash_write_done ==
    /\ UNCHANGED notFlash
    /\ fpc = "writing"
    /\ UNCHANGED <<fop, dev, flog>>
    /\ \E exit \in HelperExits :
          /\ fgh' = [fgh EXCEPT !.exit = exit.cause]
          /\ exit.cause = "declined" => dev.written = 0
          /\ exit.cause = "success" => dev.written = fop.size
          /\ IF exit.cause # "success"
             THEN /\ IF \/ Contains(exit.stderr, "dismissed")
                        \/ Contains(exit.stderr, "Not authorized")
                     THEN FlashReturn(ErrUserCancelled)
                     ELSE FlashReturn(ErrFlashFailed)
                  /\ UNCHANGED fstate
             ELSE /\ fstate' = [fstate EXCEPT !.written_bytes = fop.size]
                  /\ fpc' = "syncing"
                  /\ UNCHANGED fret

\* Lines 85-95 with the test of `verify` dropped.
flash_sync_always_verify ==
    /\ UNCHANGED notFlash
    /\ fpc = "syncing"
    /\ UNCHANGED <<fop, fstate, dev, fret>>
    /\ fgh' = [fgh EXCEPT !.synced = TRUE]
    /\ flog' = flog \o <<"sync", "verify">>
    /\ fpc' = "verifying"

\* Lines 85-95: sync_device, then verification if requested, else Ok.
flash_sync ==
    /\ UNCHANGED notFlash
    /\ fpc = "syncing"
    /\ UNCHANGED <<fop, fstate, dev>>
    /\ fgh' = [fgh EXCEPT !.synced = TRUE]
    /\ IF fop.verify
       THEN /\ flog' = flog \o <<"sync", "verify">>
            /\ fpc' = "verifying"
            /\ UNCHANGED fret
       ELSE /\ flog' = Append(flog, "sync")
            /\ FlashReturn(FlashOk)

\* Lines 91-95 with the result of verify_written_data discarded.
flash_verified_ignoring_result(r) ==
    /\ fgh' = [fgh EXCEPT !.vres = r]
    /\ FlashReturn(FlashOk)

\* Lines 91-95: verify_written_data(...)? and then Ok(()).
flash_verified(r) ==
    /\ fgh' = [fgh EXCEPT !.vres = r]
    /\ IF r = FlashOk THEN FlashReturn(FlashOk) ELSE FlashReturn(r)

\* verify::verify_data: one chunk of the read-back is compared with the
\* image, the cancellation flag being polled before each chunk; after
\* the last chunk it returns Ok.
verify_data_chunk ==
    IF dev.verified = fop.size
    THEN flash_verified(FlashOk) /\ UNCHANGED dev
    ELSE IF fstate.is_cancelled
    THEN flash_verified(ErrFlashVerifyCancelled) /\ UNCHANGED dev
    ELSE \E out \in {"match", "mismatch", "read_error"} :
           CASE out = "mismatch" ->
                  flash_verified(ErrVerifyMismatch) /\ UNCHANGED dev
             [] out = "read_error" ->
                  flash_verified(ErrVerifyRead) /\ UNCHANGED dev
             [] OTHER ->
                  /\ dev' = [dev EXCEPT !.verified = @ + 1]
                  /\ UNCHANGED <<fpc, fret, fgh>>

\* Lines 100-124: verify_written_data opens the device, or spawns
\* pkexec cat when that is denied, and runs verify_data on the reader.
flash_verify ==
    /\ UNCHANGED notFlash
    /\ fpc = "verifying"
    /\ UNCHANGED <<fop, fstate, flog>>
    /\ \/ /\ dev.verified = 0
          /\ flash_verified("Failed to start verification read")
          /\ UNCHANGED dev
       \/ verify_data_chunk

\* cancel_operation: the UI sets the cancellation flag of the flash.
cancel_flash ==
    /\ UNCHANGED notFlash
    /\ ~fstate.is_cancelled
    /\ fstate' = [fstate EXCEPT !.is_cancelled = TRUE]
    /\ fgh' = IF fpc # "idle" /\ fgh.cancelAt = "none"
              THEN [fgh EXCEPT !.cancelAt = fpc,
                               !.cancelWritten = dev.written]
              ELSE fgh
    /\ UNCHANGED <<fop, fpc, dev, fret, flog>>

----------------------------------------------------------------------------
(* Callers of the two process-wide caches *)

Procs == 1..NProcs
Versions == 1..MaxVersions

----------------------------------------------------------------------------
(* fetch_github_digests (images/mod.rs) *)

DigestRet(r, d) == [result |-> r, digests |-> d]

\* Lines 50-56: the cache is read under the read lock; Some is returned,
\* None sends the caller to the network with the lock released.
digests_check(p) ==
    /\ UNCHANGED notDigest
    /\ gpc[p] = "idle"
    /\ UNCHANGED <<release, digest_cache, gloc, ggh>>
    /\ IF digest_cache # None
       THEN /\ gret' = [gret EXCEPT ![p] = DigestRet("Ok", digest_cache)]
            /\ UNCHANGED gpc
       ELSE /\ gret' = [gret EXCEPT ![p] = DigestRet("pending", None)]
            /\ gpc' = [gpc EXCEPT ![p] = "fetch"]

\* Lines 60-117: the release metadata is requested and its assets parsed
\* into the map of digests; each failure returns Err.
digests_fetch(p) ==
    /\ UNCHANGED notDigest
    /\ gpc[p] = "fetch"
    /\ UNCHANGED <<release, digest_cache, ggh>>
    /\ \E out \in {"client", "transport", "status", "parse", "ok"} :
          CASE out = "client" ->
                 /\ gret' = [gret EXCEPT ![p] =
                               DigestRet("Failed to create HTTP client", None)]
                 /\ gpc' = [gpc EXCEPT ![p] = "idle"]
                 /\ UNCHANGED gloc
            [] out = "transport" ->
                 /\ gret' = [gret EXCEPT ![p] =
                               DigestRet("Failed to fetch GitHub releases", None)]
                 /\ gpc' = [gpc EXCEPT ![p] = "idle"]
                 /\ UNCHANGED gloc
            [] out = "status" ->
                 /\ gret' = [gret EXCEPT ![p] =
                               DigestRet("GitHub API request failed with status", None)]
                 /\ gpc' = [gpc EXCEPT ![p] = "idle"]
                 /\ UNCHANGED gloc
            [] out = "parse" ->
                 /\ gret' = [gret EXCEPT ![p] =
                               DigestRet("Failed to parse GitHub releases", None)]
                 /\ gpc' = [gpc EXCEPT ![p] = "idle"]
                 /\ UNCHANGED gloc
            [] OTHER ->
                 /\ gloc' = [gloc EXCEPT ![p] = Some(release)]
                 /\ gpc' = [gpc EXCEPT ![p] = "write"]
                 /\ UNCHANGED gret

\* Lines 119-125: the write lock is taken and the fetched map stored;
\* the map is returned.
digests_write(p) ==
    /\ UNCHANGED notDigest
    /\ gpc[p] = "write"
    /\ UNCHANGED <<release, gloc>>
    /\ digest_cache' = gloc[p]
    /\ ggh' = [ggh EXCEPT !.writes = @ + 1,
                          !.overwrote = @ \/ digest_cache # None]
    /\ gret' = [gret EXCEPT ![p] = DigestRet("Ok", gloc[p])]
    /\ gpc' = [gpc EXCEPT ![p] = "idle"]

\* GitHub publishes a new latest release.
release_publish ==
    /\ UNCHANGED notDigest
    /\ release < MaxVersions
    /\ release' = release + 1
    /\ UNCHANGED <<digest_cache, gpc, gloc, gret, ggh>>

----------------------------------------------------------------------------
(* detect_board_from_filename, steps 7 and 8 (commands/custom_image.rs) *)

\* Lines 236-241: needs_loading is read under the lock, which is released.
board_check(p) ==
    /\ UNCHANGED notCatalog
    /\ cpc[p] = "idle"
    /\ UNCHANGED <<catalog, images_json, cloc, cgh>>
    /\ cret' = [cret EXCEPT ![p] = [result |-> "pending", json |-> None]]
    /\ cpc' = [cpc EXCEPT ![p] = IF images_json = None THEN "fetch" ELSE "read"]

\* Lines 246-249: fetch_all_images().await; its error is returned.
board_fetch(p) ==
    /\ UNCHANGED notCatalog
    /\ cpc[p] = "fetch"
    /\ UNCHANGED <<catalog, images_json, cgh>>
    /\ \E ok \in BOOLEAN :
          IF ok
          THEN /\ cloc' = [cloc EXCEPT ![p] = Some(catalog)]
               /\ cpc' = [cpc EXCEPT ![p] = "store"]
               /\ UNCHANGED cret
          ELSE /\ cret' = [cret EXCEPT ![p] =
                             [result |-> "Failed to fetch board data",
                              json |-> None]]
               /\ cpc' = [cpc EXCEPT ![p] = "idle"]
               /\ UNCHANGED cloc

\* Lines 252-262 with the second is_none() test dropped.
board_store_without_recheck(p) ==
    /\ UNCHANGED notCatalog
    /\ cpc[p] = "store"
    /\ UNCHANGED <<catalog, cloc, cret>>
    /\ images_json' = cloc[p]
    /\ cgh' = [cgh EXCEPT !.writes = @ + 1,
                          !.first = IF @ = None THEN cloc[p] ELSE @]
    /\ cpc' = [cpc EXCEPT ![p] = "read"]

\* Lines 252-262: the lock is taken again and the fetched catalog stored
\* only if images_json is still None.
board_store(p) ==
    /\ UNCHANGED notCatalog
    /\ cpc[p] = "store"
    /\ UNCHANGED <<catalog, cloc, cret>>
    /\ IF images_json = None
       THEN /\ images_json' = cloc[p]
            /\ cgh' = [cgh EXCEPT !.writes = @ + 1,
                                  !.first = IF @ = None THEN cloc[p] ELSE @]
       ELSE UNCHANGED <<images_json, cgh>>
    /\ cpc' = [cpc EXCEPT ![p] = "read"]

\* Lines 268-289: the cached catalog is read under the lock
\* (as_ref().ok_or("Images not loaded")) and the board looked up in it.
board_read(p) ==
    /\ UNCHANGED notCatalog
    /\ cpc[p] = "read"
    /\ UNCHANGED <<catalog, images_json, cloc, cgh>>
    /\ cret' = [cret EXCEPT ![p] =
                  IF images_json = None
                  THEN [result |-> "Images not loaded", json |-> None]
                  ELSE [result |-> "Ok", json |-> images_json]]
    /\ cpc' = [cpc EXCEPT ![p] = "idle"]

\* The Armbian API publishes a new catalog.
catalog_publish ==
    /\ UNCHANGED notCatalog
    /\ catalog < MaxVersions
    /\ catalog' = catalog + 1
    /\ UNCHANGED <<images_json, cpc, cloc, cret, cgh>>

----------------------------------------------------------------------------
(* get_block_devices (devices/windows.rs) *)

\* const MAX_CONSECUTIVE_ERRORS: usize = 4 (line 393)
MAX_CONSECUTIVE_ERRORS == 4

\* the Win32 error codes both matches list: 1 | 2 | 5 | 21 (lines 404, 439)
ExpectedErrors == {1, 2, 5, 21}

DiskNumbers == 0..(MaxDisk - 1)

\* What Windows answers for \\.\PhysicalDrive<n>: the error of CreateFileW
\* (0: a handle), the error of the geometry IOCTL (0: success), the disk
\* size, whether the storage-property and the media-types IOCTLs succeed,
\* the bus the disk is on, whether its write-protect bit is set.
Disk(open, geometry, size, props, media, bus, locked) ==
    [open |-> open, geometry |-> geometry, size |-> size, props |-> props,
     media |-> media, bus |-> bus, locked |-> locked]

\* no such drive: CreateFileW fails with ERROR_FILE_NOT_FOUND
Absent == Disk(2, 0, 0, FALSE, FALSE, "none", FALSE)

\* the nodes a fixture may expose at an index
Exposed ==
    {Disk(5, 0, 1, TRUE, TRUE, "USB", FALSE),      \* open: access denied
     Disk(32, 0, 1, TRUE, TRUE, "USB", FALSE),     \* open: sharing violation
     Disk(0, 21, 1, TRUE, TRUE, "USB", FALSE),     \* geometry: not ready
     Disk(0, 31, 1, TRUE, TRUE, "SATA", FALSE),    \* geometry: general failure
     Disk(0, 0, 0, TRUE, TRUE, "USB", FALSE),      \* card reader, no medium
     Disk(0, 0, 1, TRUE, TRUE, "USB", FALSE),
     Disk(0, 0, 1, TRUE, TRUE, "SD", TRUE),
     Disk(0, 0, 1, TRUE, TRUE, "SATA", FALSE),
     Disk(0, 0, 1, FALSE, TRUE, "USB", FALSE),     \* property query fails
     Disk(0, 0, 1, TRUE, FALSE, "SD", TRUE),       \* media-types query fails
     Disk(0, 0, 1, TRUE, TRUE, "Other", FALSE)}    \* bus code not in the table

\* BUS_TYPE_MAP (lines 150-172), for the buses of the fixtures
BusTypes == {"USB", "SD", "SATA"}

\* bus_type_to_string
bus_type_to_string(bus) == IF bus \in BusTypes THEN Some(bus) ELSE None

\* the drive letters of GetLogicalDrives, in the order of the loop 0..26
Letters == <<"C:", "D:">>
LetterSet == {Letters[i] : i \in 1..Len(Letters)}

\* what IOCTL_VOLUME_GET_VOLUME_DISK_EXTENTS answers for a letter: the
\* disks of its number_of_extents extents in order, NoVolume for a letter
\* that is not mounted, ExtentsFail for a query that fails
NoVolume == [status |-> "unmounted", extents |-> <<>>]
ExtentsFail == [status |-> "fail", extents |-> <<>>]
Volume(extents) == [status |-> "ok", extents |-> extents]

\* is_disk_read_only: the write-protect bit when the query succeeds,
\* else false
is_disk_read_only(d) == d.media /\ d.locked

\* query_device_properties: (is_removable, bus_type); every path is Ok
query_device_properties(disk_number, d) ==
    IF ~d.props
    THEN [is_removable |-> FALSE, bus_type |-> None]
    ELSE LET bus_type == bus_type_to_string(d.bus)
         IN  [is_removable |->
                IF bus_type # None
                THEN bus_type[1] = "USB" \/ bus_type[1] = "SD"
                ELSE disk_number > 0,
              bus_type |-> bus_type]

\* struct VolumeDiskExtents { number_of_extents, extents: [_; 1] } (lines
\* 79-84): the length of the array the loop of lines 371-376 indexes
ExtentsArrayLen == 1

\* lines 368-377 for one letter: the loop over j in 0..number_of_extents
\* pushes the letter at the first extent on the disk; extents.extents[j]
\* with j past the array's length is an index out of bounds, a panic
extent_scan(v, disk_number) ==
    LET n == Len(v.extents)
        M == {j \in 1..n : v.extents[j] = disk_number}
        first == IF M = {} THEN n + 1 ELSE CHOOSE j \in M : \A k \in M : j <= k
    IN  IF v.status # "ok" THEN "skip"
        ELSE IF first <= ExtentsArrayLen THEN "push"
        ELSE IF n > ExtentsArrayLen THEN "panic"
        ELSE "skip"

\* get_drive_letters_for_disk: the letters pushed for the disk, or the
\* panic; the caller's Option is None when the list is empty
get_drive_letters_for_disk(disk_number) ==
    [panic |-> \E i \in 1..Len(Letters) :
                  extent_scan(platform.volumes[Letters[i]], disk_number) = "panic",
     letters |-> SelectSeq(Letters, LAMBDA l :
                    extent_scan(platform.volumes[l], disk_number) = "push")]

\* lines 466-468: letters.iter().any(|l| l == "C:")
is_system(letters) == \E i \in 1..Len(letters) : letters[i] = "C:"

\* lines 463-485: the record pushed for a disk that answered
BlockDevice(disk_number, d) ==
    LET props == query_device_properties(disk_number, d)
        drive_letters == get_drive_letters_for_disk(disk_number).letters
    IN  [disk |-> disk_number, size |-> d.size,
         is_removable |-> props.is_removable,
         is_system |-> is_system(drive_letters),
         bus_type |-> props.bus_type,
         letters |-> drive_letters,
         is_read_only |-> is_disk_read_only(d)]

\* lines 391-393: the call starts with an empty Vec and no errors counted
enum_start ==
    /\ UNCHANGED notDevices
    /\ epc = "idle"
    /\ epc' = "loop"
    /\ eloc' = [disk_number |-> 0, consecutive_errors |-> 0]
    /\ devices' = <<>>
    /\ eret' = "pending"
    /\ UNCHANGED platform

\* lines 395-486: one iteration of `for disk_number in 0..32`; a panic in
\* get_drive_letters_for_disk unwinds out of get_block_devices
enum_step ==
    /\ UNCHANGED notDevices
    /\ epc = "loop"
    /\ eloc.disk_number < MaxDisk
    /\ UNCHANGED platform
    /\ LET n == eloc.disk_number
           d == platform.disks[n]
           next == [eloc EXCEPT !.disk_number = n + 1]
       IN  IF d.open # 0
           THEN /\ eloc' = [next EXCEPT !.consecutive_errors = @ + 1]
                /\ devices' = devices
                /\ epc' = IF /\ d.open \in ExpectedErrors
                             /\ eloc.consecutive_errors + 1 >= MAX_CONSECUTIVE_ERRORS
                          THEN "break"
                          ELSE epc
                /\ UNCHANGED eret
           ELSE IF d.geometry # 0 \/ d.size = 0
           THEN /\ eloc' = [next EXCEPT !.consecutive_errors = 0]
                /\ UNCHANGED <<epc, devices, eret>>
           ELSE IF get_drive_letters_for_disk(n).panic
           THEN /\ eloc' = [eloc EXCEPT !.consecutive_errors = 0]
                /\ epc' = "panic"
                /\ eret' = "panic"
                /\ UNCHANGED devices
           ELSE /\ eloc' = [next EXCEPT !.consecutive_errors = 0]
                /\ devices' = Append(devices, BlockDevice(n, d))
                /\ UNCHANGED <<epc, eret>>

\* line 488: the loop has ended or was left; Ok(devices)
enum_return ==
    /\ UNCHANGED notDevices
    /\ \/ epc = "break"
       \/ epc = "loop" /\ eloc.disk_number = MaxDisk
    /\ epc' = "done"
    /\ eret' = "Ok"
    /\ UNCHANGED <<platform, eloc, devices>>

----------------------------------------------------------------------------
(* normalize_slug (utils/format.rs lines 44-53) *)

\* the characters of a slug: a lower-case letter, an upper-case letter, a
\* hyphen and another character that is not alphanumeric
SlugChars == {"a", "B", "-", "_"}
Slugs == UNION {[1..n -> SlugChars] : n \in 0..MaxSlugLen}

\* char::is_alphanumeric (of a lower-cased string too)
is_alphanumeric(c) == c \in {"a", "B", "b"}

\* slug.to_lowercase()
slug_to_lowercase(x) == [i \in 1..Len(x) |-> IF x[i] = "B" THEN "b" ELSE x[i]]

\* .map(|c| if c.is_alphanumeric() { c } else { '-' })
map_hyphens(x) == [i \in 1..Len(x) |-> IF is_alphanumeric(x[i]) THEN x[i] ELSE "-"]

\* .split('-'): the pieces between the hyphens, empty ones included
RECURSIVE split_hyphen(_)
split_hyphen(x) ==
    LET H == {i \in 1..Len(x) : x[i] = "-"}
    IN  IF H = {} THEN <<x>>
        ELSE LET i == CHOOSE h \in H : \A j \in H : h <= j
             IN  <<SubSeq(x, 1, i - 1)>> \o split_hyphen(SubSeq(x, i + 1, Len(x)))

\* .join("-")
RECURSIVE join_hyphen(_)
join_hyphen(pieces) ==
    IF pieces = <<>> THEN <<>>
    ELSE IF Len(pieces) = 1 THEN pieces[1]
    ELSE pieces[1] \o <<"-">> \o join_hyphen(Tail(pieces))

\* lines 49-52 without .filter(|s| !s.is_empty())
collapse_keeping_empty(x) == join_hyphen(split_hyphen(x))

\* lines 49-52: split, drop the empty pieces, join
collapse(x) ==
    join_hyphen(SelectSeq(split_hyphen(x), LAMBDA piece : piece # <<>>))

normalize_slug(x) == collapse(map_hyphens(slug_to_lowercase(x)))

\* normalize_slug is called on the argument
slug_normalize ==
    /\ UNCHANGED notSlug
    /\ slug.pc = "called"
    /\ slug' = [slug EXCEPT !.pc = "returned",
                            !.output = normalize_slug(slug.input)]

\* normalize_slug is called on its own result
slug_normalize_again ==
    /\ UNCHANGED notSlug
    /\ slug.pc = "returned"
    /\ slug' = [slug EXCEPT !.pc = "returned twice",
                            !.again = normalize_slug(slug.output)]

----------------------------------------------------------------------------
(* ProgressTracker (utils/progress.rs) *)

\* ProgressTracker::new (lines 61-73); the names and the instants are left
\* out
ProgressTrackerNew(total_bytes, log_interval_mb) ==
    [total_bytes |-> total_bytes, processed_bytes |-> 0, last_log_bytes |-> 0,
     log_interval_bytes |-> log_interval_mb * BytesPerMb]

\* what the updates so far have shown: the number of calls, the count
\* before the last call and its argument, and the count at the last
\* snapshot returned before the last call
TghNew == [calls |-> 0, before |-> 0, added |-> 0, emitted |-> 0, emitted_before |-> 0]

\* lines 92-112: the snapshot, in bytes
ProgressUpdate(t, processed) ==
    [processed_bytes |-> processed, total_bytes |-> t.total_bytes,
     bytes_since_last |-> processed - t.last_log_bytes]

\* lines 78-139 with the store into last_log_bytes (line 101) missing
tracker_update_without_last_log(bytes_added) ==
    /\ UNCHANGED notTracker
    /\ tracker.processed_bytes + bytes_added <= MaxProcessed
    /\ LET processed == tracker.processed_bytes + bytes_added
           t == [tracker EXCEPT !.processed_bytes = processed]
           emit == /\ t.log_interval_bytes # 0
                   /\ processed \div t.log_interval_bytes
                        > t.last_log_bytes \div t.log_interval_bytes
       IN  /\ tracker' = t
           /\ tret' = IF emit THEN Some(ProgressUpdate(tracker, processed)) ELSE None
           /\ tgh' = [calls |-> IF tgh.calls < 2 THEN tgh.calls + 1 ELSE 2,
                      before |-> tracker.processed_bytes,
                      added |-> bytes_added,
                      emitted |-> IF emit THEN processed ELSE tgh.emitted,
                      emitted_before |-> tgh.emitted]

\* lines 78-139: ProgressTracker::update
tracker_update(bytes_added) ==
    /\ UNCHANGED notTracker
    /\ tracker.processed_bytes + bytes_added <= MaxProcessed
    /\ LET processed == tracker.processed_bytes + bytes_added
           t == [tracker EXCEPT !.processed_bytes = processed]
           emit == /\ t.log_interval_bytes # 0
                   /\ processed \div t.log_interval_bytes
                        > t.last_log_bytes \div t.log_interval_bytes
       IN  /\ tracker' = IF emit THEN [t EXCEPT !.last_log_bytes = processed] ELSE t
           /\ tret' = IF emit THEN Some(ProgressUpdate(tracker, processed)) ELSE None
           /\ tgh' = [calls |-> IF tgh.calls < 2 THEN tgh.calls + 1 ELSE 2,
                      before |-> tracker.processed_bytes,
                      added |-> bytes_added,
                      emitted |-> IF emit THEN processed ELSE tgh.emitted,
                      emitted_before |-> tgh.emitted]

----------------------------------------------------------------------------
(* force_delete_cached_image / delete_downloaded_image
   (commands/operations.rs) *)

\* Paths are sequences of components. The cache directory, an image and
\* a link in it, an image and a link elsewhere, and an image in a
\* directory whose name begins like the cache directory's.
CacheDir == <<"cache">>
CacheImage == <<"cache", "a.img">>
CacheLink == <<"cache", "link">>
HomeImage == <<"home", "b.img">>
HomeLink == <<"home", "link">>
OldImage == <<"cache-old", "c.img">>

Requests == {CacheImage, CacheLink, HomeImage, HomeLink, OldImage}

\* entries of the file system
NoEntry == <<"absent">>
FileEntry == <<"file">>
DirEntry == <<"dir">>
LinkTo(target) == <<"link", target>>

\* Path::canonicalize: the path with its symbolic link resolved; None
\* when the path, or the target of its link, does not exist
canonicalize(f, path) ==
    CASE f[path] = NoEntry -> None
      [] f[path][1] = "link" ->
           IF f[f[path][2]] = FileEntry THEN Some(f[path][2]) ELSE None
      [] OTHER -> Some(path)

\* Path::exists: follows links
path_exists(f, path) == canonicalize(f, path) # None

\* Path::starts_with taken as always true
starts_with_anything(path, base) == TRUE

\* Path::starts_with: base is a prefix of path, component by component
starts_with(path, base) ==
    /\ Len(base) <= Len(path)
    /\ \A i \in 1..Len(base) : path[i] = base[i]

\* std::fs::remove_file: unlinks the entry at the path (a link itself,
\* not its target)
remove_file(f, path) == [f EXCEPT ![path] = NoEntry]

ErrOutsideCache == "Cannot delete entries outside cache directory"

\* the command returns r having left the entries as g
DeleteReturn(cmd, path, r, g) ==
    /\ entries' = g
    /\ del' = [cmd |-> cmd, path |-> path, result |-> r, before |-> entries]
    /\ UNCHANGED cache_enabled

\* lines 146-187
force_delete_cached_image(image_path) ==
    /\ UNCHANGED notDelete
    /\ LET cache_dir == canonicalize(entries, CacheDir)
           canonical_path == canonicalize(entries, image_path)
           cmd == "force_delete_cached_image"
       IN  IF cache_dir = None
           THEN DeleteReturn(cmd, image_path, "Failed to resolve cache directory", entries)
           ELSE IF canonical_path = None
           THEN DeleteReturn(cmd, image_path, "Failed to resolve image path", entries)
           ELSE IF ~starts_with(canonical_path[1], cache_dir[1])
           THEN DeleteReturn(cmd, image_path, ErrOutsideCache, entries)
           ELSE IF path_exists(entries, image_path)
           THEN \E ok \in BOOLEAN :
                   IF ok
                   THEN DeleteReturn(cmd, image_path, "Ok", remove_file(entries, image_path))
                   ELSE DeleteReturn(cmd, image_path, "Failed to delete image", entries)
           ELSE DeleteReturn(cmd, image_path, "Ok", entries)

\* lines 194-258
delete_downloaded_image(image_path) ==
    /\ UNCHANGED notDelete
    /\ LET enabled == IF cache_enabled = "unset" THEN TRUE
                      ELSE cache_enabled = "true"
           cache_dir == canonicalize(entries, CacheDir)
           canonical_path == canonicalize(entries, image_path)
           cmd == "delete_downloaded_image"
       IN  IF enabled
           THEN DeleteReturn(cmd, image_path, "Ok", entries)
           ELSE IF cache_dir = None
           THEN DeleteReturn(cmd, image_path, "Ok", entries)
           ELSE IF canonical_path = None
           THEN DeleteReturn(cmd, image_path, "Ok", entries)
           ELSE IF ~starts_with(canonical_path[1], cache_dir[1])
           THEN DeleteReturn(cmd, image_path, ErrOutsideCache, entries)
           ELSE IF path_exists(entries, canonical_path[1])
           THEN \E ok \in BOOLEAN :
                   IF ok
                   THEN DeleteReturn(cmd, image_path, "Ok",
                                     remove_file(entries, canonical_path[1]))
                   ELSE DeleteReturn(cmd, image_path, "Failed to delete image", entries)
           ELSE DeleteReturn(cmd, image_path, "Ok", entries)

----------------------------------------------------------------------------
(* delete_decompressed_custom_image (commands/custom_image.rs) *)

\* get_cache_dir(config::app::NAME).join("custom-decompress"), a
\* decompressed image and a link in it
CustomDir == <<"cache", "custom-decompress">>
CustomImage == <<"cache", "custom-decompress", "d.img">>
CustomLink == <<"cache", "custom-decompress", "link">>

\* image_path values that begin with the directory and climb out of it
ClimbToHome == <<"cache", "custom-decompress", "..", "..", "home", "b.img">>
ClimbToCache == <<"cache", "custom-decompress", "..", "a.img">>

\* What the operating system makes of a path handed to a system call:
\* each ".." leaves the directory reached so far.
RECURSIVE os_resolve(_, _)
os_resolve(done, rest) ==
    IF rest = <<>> THEN done
    ELSE IF Head(rest) = ".."
    THEN os_resolve(SubSeq(done, 1, Len(done) - 1), Tail(rest))
    ELSE os_resolve(Append(done, Head(rest)), Tail(rest))

\* the lookup succeeds only through directories that exist
os_reachable(f, path) ==
    \A i \in 1..Len(path) :
        path[i] = ".." =>
            LET dir == os_resolve(<<>>, SubSeq(path, 1, i - 1))
            IN  dir \in DOMAIN f => f[dir] = DirEntry

\* Path::exists on a path as given
os_exists(f, path) ==
    /\ os_reachable(f, path)
    /\ os_resolve(<<>>, path) \in DOMAIN f
    /\ path_exists(f, os_resolve(<<>>, path))

\* std::fs::remove_dir: removes the directory when it holds nothing
remove_dir(f, dir) ==
    IF /\ f[dir] = DirEntry
       /\ \A p \in DOMAIN f : (p # dir /\ starts_with(p, dir)) => f[p] = NoEntry
    THEN [f EXCEPT ![dir] = NoEntry]
    ELSE f

ErrOutsideCustom == "Cannot delete files outside custom-decompress directory"

\* lines 139-176
delete_decompressed_custom_image(image_path) ==
    /\ UNCHANGED notDelete
    /\ LET custom_decompress_dir == CustomDir
           cmd == "delete_decompressed_custom_image"
           target == os_resolve(<<>>, image_path)
       IN  IF ~starts_with(image_path, custom_decompress_dir)
           THEN DeleteReturn(cmd, image_path, ErrOutsideCustom, entries)
           ELSE IF os_exists(entries, image_path)
           THEN \E ok \in BOOLEAN :
                   /\ entries[target] = DirEntry => ~ok
                   /\ IF ok
                      THEN DeleteReturn(cmd, image_path, "Ok",
                              remove_dir(remove_file(entries, target),
                                         custom_decompress_dir))
                      ELSE DeleteReturn(cmd, image_path,
                              "Failed to delete decompressed image", entries)
           ELSE DeleteReturn(cmd, image_path, "Ok",
                             remove_dir(entries, custom_decompress_dir))

----------------------------------------------------------------------------
(* Concurrent decompress_custom_image calls on the same input
   (commands/custom_image.rs lines 42-59, decompress.rs lines 136-220) *)

\* a call that has not started
NoJob == [pc |-> "idle", path |-> 0, result |-> "none", busy |-> FALSE]

\* The output path custom-decompress/<base_filename>-<timestamp> of the
\* input, given by its timestamp (decompress.rs lines 153-167).
CustomOutputPath(timestamp) == timestamp

\* a path of the directory with no file at it
NoOutput == [exists |-> FALSE, writers |-> {}]

JobReturn(p, path, r, busy) ==
    jobs' = [jobs EXCEPT ![p] =
                [pc |-> "done", path |-> path, result |-> r, busy |-> busy]]

\* decompress.rs lines 140-177: the timestamp is read, the directory made,
\* and an output that exists is returned at once. busy records whether
\* another call had that file open for writing at that moment.
job_check(p) ==
    /\ UNCHANGED notJobs
    /\ jobs[p].pc \in {"idle", "done"}
    /\ UNCHANGED <<clock, outputs>>
    /\ LET timestamp == clock
           output_path == CustomOutputPath(timestamp)
       IN  \E dir \in BOOLEAN :
              IF ~dir
              THEN JobReturn(p, 0, "Failed to create cache directory", FALSE)
              ELSE IF outputs[output_path].exists
              THEN JobReturn(p, output_path, "Ok",
                             outputs[output_path].writers # {})
              ELSE jobs' = [jobs EXCEPT ![p] =
                              [pc |-> "create", path |-> output_path,
                               result |-> "pending", busy |-> FALSE]]

\* decompress.rs lines 179-212, 36-48 and 100-105: the input is opened,
\* the decoder made and the output created (truncated when it exists).
job_create(p) ==
    /\ UNCHANGED notJobs
    /\ jobs[p].pc = "create"
    /\ UNCHANGED clock
    /\ \E fail \in {"none", "open", "decoder", "create"} :
          CASE fail = "open" ->
                 /\ JobReturn(p, 0, "Failed to open input file", FALSE)
                 /\ UNCHANGED outputs
            [] fail = "decoder" ->
                 /\ JobReturn(p, 0, "Failed to create XZ decoder", FALSE)
                 /\ UNCHANGED outputs
            [] fail = "create" ->
                 /\ JobReturn(p, 0, "Failed to create output file", FALSE)
                 /\ UNCHANGED outputs
            [] OTHER ->
                 /\ jobs' = [jobs EXCEPT ![p].pc = "writing"]
                 /\ outputs' = [outputs EXCEPT ![jobs[p].path] =
                                  [exists |-> TRUE, writers |-> @.writers \cup {p}]]

\* decompress.rs lines 107-131 and 214-219: the loop runs to the end of
\* the stream, to an error, or to a cancellation that removes the output.
job_write(p) ==
    /\ UNCHANGED notJobs
    /\ jobs[p].pc = "writing"
    /\ UNCHANGED clock
    /\ LET path == jobs[p].path
           closed == [outputs EXCEPT ![path].writers = @ \ {p}]
       IN  \E out \in {"ok", "error", "cancelled"} :
              CASE out = "error" ->
                     /\ JobReturn(p, 0, "xz decompression error", FALSE)
                     /\ outputs' = closed
                [] out = "cancelled" ->
                     /\ JobReturn(p, 0, ErrDecompressCancelled, FALSE)
                     /\ outputs' = [closed EXCEPT ![path].exists = FALSE]
                [] OTHER ->
                     /\ JobReturn(p, path, "Ok", FALSE)
                     /\ outputs' = closed

\* a millisecond passes
clock_tick ==
    /\ UNCHANGED notJobs
    /\ clock < MaxClock
    /\ clock' = clock + 1
    /\ UNCHANGED <<jobs, outputs>>

----------------------------------------------------------------------------
(* needs_decompression and the file-name handling of decompress_local_file
   (decompress.rs lines 24-28, 140-150, 193-212) *)

\* the characters of a file name: a letter, the dot, and the letters of
\* the four extensions, one of them in upper case too
NameChars == {"a", ".", "x", "z", "X", "g", "b", "2", "s", "t"}
Names == UNION {[1..n -> NameChars] : n \in 0..MaxNameLen}

Dot == <<".">>
ExtXz == <<"x", "z">>
ExtGz == <<"g", "z">>
ExtBz2 == <<"b", "z", "2">>
ExtZst == <<"z", "s", "t">>

\* Path::file_name: None for the empty path and for "." and ".."
file_name(name) ==
    IF name \in {<<>>, <<".">>, <<".", ".">>} THEN None ELSE Some(name)

\* Path::extension: the text after the last dot of the file name, None
\* when there is no dot or nothing but the dot before it
extension(name) ==
    LET D == {i \in 1..Len(name) : name[i] = "."}
    IN  IF file_name(name) = None \/ D = {} THEN None
        ELSE LET d == CHOOSE i \in D : \A j \in D : i >= j
             IN  IF d = 1 THEN None
                 ELSE Some(SubSeq(name, d + 1, Len(name)))

\* str::to_lowercase
ext_to_lowercase(x) == [i \in 1..Len(x) |-> IF x[i] = "X" THEN "x" ELSE x[i]]

\* lines 25-28
needs_decompression(name) ==
    LET ext == IF extension(name) = None THEN <<>> ELSE extension(name)[1]
    IN  ext_to_lowercase(ext) \in {ExtXz, ExtGz, ExtBz2, ExtZst}

\* str::ends_with
ends_with(x, suffix) ==
    /\ Len(suffix) <= Len(x)
    /\ SubSeq(x, Len(x) - Len(suffix) + 1, Len(x)) = suffix

\* str::trim_end_matches: the suffix is removed as often as it occurs
RECURSIVE trim_end_matches(_, _)
trim_end_matches(x, suffix) ==
    IF ends_with(x, suffix)
    THEN trim_end_matches(SubSeq(x, 1, Len(x) - Len(suffix)), suffix)
    ELSE x

\* lines 146-150
base_filename(filename) ==
    trim_end_matches(
        trim_end_matches(
            trim_end_matches(
                trim_end_matches(filename, Dot \o ExtXz),
                Dot \o ExtGz),
            Dot \o ExtBz2),
        Dot \o ExtZst)

ErrUnsupported == "Unsupported compression format"

\* lines 194-212: the decoder chosen, or the error
codec_of(filename) ==
    IF ends_with(filename, Dot \o ExtXz) THEN "xz"
    ELSE IF ends_with(filename, Dot \o ExtGz) THEN "gz"
    ELSE IF ends_with(filename, Dot \o ExtBz2) THEN "bz2"
    ELSE IF ends_with(filename, Dot \o ExtZst) THEN "zst"
    ELSE ErrUnsupported

NoCustom == [pc |-> "selected", name |-> <<>>, needs |-> FALSE,
             base |-> <<>>, result |-> "none"]

\* check_needs_decompression (custom_image.rs lines 27-37)
check_needs_decompression ==
    /\ UNCHANGED notCustom
    /\ custom.pc = "selected"
    /\ custom' = [custom EXCEPT !.pc = "checked",
                                !.needs = needs_decompression(custom.name)]

\* decompress_local_file, lines 140-150 and 193-212: the base name and the
\* decoder the file name gives
decompress_dispatch ==
    /\ UNCHANGED notCustom
    /\ custom.pc = "checked"
    /\ IF file_name(custom.name) = None
       THEN custom' = [custom EXCEPT !.pc = "dispatched",
                                     !.result = "Invalid filename"]
       ELSE custom' = [custom EXCEPT !.pc = "dispatched",
                                     !.base = base_filename(custom.name),
                                     !.result = codec_of(custom.name)]

----------------------------------------------------------------------------
(* Specifications *)

InitCustom == custom = NoCustom

InitJobs ==
    /\ clock = 1
    /\ jobs = [p \in Procs |-> NoJob]
    /\ outputs = [t \in 1..MaxClock |-> NoOutput]

InitDigest ==
    /\ release = 1
    /\ digest_cache = None
    /\ gpc = [p \in Procs |-> "idle"]
    /\ gloc = [p \in Procs |-> None]
    /\ gret = [p \in Procs |-> DigestRet("none", None)]
    /\ ggh = [writes |-> 0, overwrote |-> FALSE]

InitCatalog ==
    /\ catalog = 1
    /\ images_json = None
    /\ cpc = [p \in Procs |-> "idle"]
    /\ cloc = [p \in Procs |-> None]
    /\ cret = [p \in Procs |-> [result |-> "none", json |-> None]]
    /\ cgh = [writes |-> 0, first |-> None]

\* One disk holding the volume C:, the boot volume; nothing enumerated.
IdlePlatform ==
    [disks |-> [n \in DiskNumbers |->
                  IF n = 0 THEN Disk(0, 0, 1, TRUE, TRUE, "SATA", FALSE)
                  ELSE Absent],
     volumes |-> [l \in LetterSet |-> IF l = "C:" THEN Volume(<<0>>) ELSE NoVolume],
     boot |-> "C:"]

InitDevicesIdle ==
    /\ epc = "idle"
    /\ eloc = [disk_number |-> 0, consecutive_errors |-> 0]
    /\ devices = <<>>
    /\ eret = "none"

InitDevices ==
    /\ platform = IdlePlatform
    /\ InitDevicesIdle

InitSlug == slug = [pc |-> "called", input |-> <<>>, output |-> <<>>, again |-> <<>>]

InitTracker ==
    /\ tracker = ProgressTrackerNew(0, 0)
    /\ tret = None
    /\ tgh = TghNew

\* an empty cache directory, nothing elsewhere, no command run
NoDelete == [cmd |-> "none", path |-> <<>>, result |-> "none"]

InitDelete ==
    /\ entries = [p \in Requests \cup {CacheDir} |->
                  IF p = CacheDir THEN DirEntry ELSE NoEntry]
    /\ cache_enabled = "unset"
    /\ del = NoDelete

InitFlash ==
    /\ fop = [verify |-> FALSE, size |-> 1]
    /\ fpc = "idle"
    /\ fstate = FlashStateNew
    /\ dev = [written |-> 0, verified |-> 0]
    /\ fret = "none"
    /\ flog = <<>>
    /\ fgh = FghNew


InitDownloadIdle ==
    /\ fs = [p \in Paths |-> NoFile]
    /\ op = NoOp
    /\ pc = "idle"
    /\ state = DownloadStateNew
    /\ loc = LocNew
    /\ ret = [result |-> "none", path |-> NoPath]
    /\ gh = GhNew

InitDownload ==
    /\ sidecar = NoSidecar
    /\ asset = NoAsset
    /\ InitDownloadIdle

Init ==
    /\ url \in Urls
    /\ body \in Bodies
    /\ InitDownload
    /\ InitFlash
    /\ InitDigest
    /\ InitCatalog
    /\ InitJobs
    /\ InitCustom
    /\ InitDevices
    /\ InitSlug
    /\ InitTracker
    /\ InitDelete

NextDownload ==
    \/ \E kind \in Kinds, sha \in BOOLEAN :
          download_start(Operation(kind, sha))
    \/ download_send
    \/ download_recv_chunk
    \/ download_recv_error
    \/ download_recv_end
    \/ verify_fetch
    \/ verify_hash
    \/ verify_failed
    \/ download_place
    \/ decompress_step
    \/ cancel_download

SpecDownload == Init /\ [][NextDownload]_vars

\* The flash engine alone: the download side stays as constructed.
InitFlashOnly ==
    /\ url = [where |-> "nowhere", xz |-> FALSE, valid |-> TRUE]
    /\ body = <<>>
    /\ InitDownload
    /\ InitFlash
    /\ InitDigest
    /\ InitCatalog
    /\ InitJobs
    /\ InitCustom
    /\ InitDevices
    /\ InitSlug
    /\ InitTracker
    /\ InitDelete

NextFlash ==
    \/ \E verify \in BOOLEAN, size \in 1..MaxImage :
          flash_start(verify, size)
    \/ flash_unmount
    \/ dd_block
    \/ flash_write_done
    \/ flash_sync
    \/ flash_verify
    \/ cancel_flash

SpecFlash == InitFlashOnly /\ [][NextFlash]_vars

\* Downloads and custom-image decompressions of one .xz image, one after
\* another on the shared DownloadState.
InitLocal ==
    /\ url = [where |-> "nowhere", xz |-> TRUE, valid |-> TRUE]
    /\ body \in Bodies
    /\ InitDownload
    /\ InitFlash
    /\ InitDigest
    /\ InitCatalog
    /\ InitJobs
    /\ InitCustom
    /\ InitDevices
    /\ InitSlug
    /\ InitTracker
    /\ InitDelete

NextLocal ==
    \/ \E kind \in Kinds, sha \in BOOLEAN :
          download_start(Operation(kind, sha))
    \/ download_send
    \/ download_recv_chunk
    \/ download_recv_error
    \/ download_recv_end
    \/ verify_fetch
    \/ verify_hash
    \/ verify_failed
    \/ download_place
    \/ decompress_step
    \/ \E xz \in BOOLEAN : local_start(xz)
    \/ local_step
    \/ cancel_download

SpecLocal == InitLocal /\ [][NextLocal]_vars

\* The operations of SpecLocal with a second command invoked while the
\* first is in flight.
NextShared ==
    \/ NextLocal
    \/ second_start

SpecShared == InitLocal /\ [][NextShared]_vars

\* Downloads from the release host, one after another, of a file for
\* which the release holds any of ReleaseAssets; a sidecar URL is given
\* with every request.
InitRelease ==
    /\ url = [where |-> "host", xz |-> FALSE, valid |-> TRUE]
    /\ body \in {b \in Bodies : Len(b) <= 1}
    /\ sidecar = NoSidecar
    /\ asset \in ReleaseAssets
    /\ InitDownloadIdle
    /\ InitFlash
    /\ InitDigest
    /\ InitCatalog
    /\ InitJobs
    /\ InitCustom
    /\ InitDevices
    /\ InitSlug
    /\ InitTracker
    /\ InitDelete

NextRelease ==
    \/ \E kind \in Kinds : download_start(Operation(kind, TRUE))
    \/ download_send
    \/ download_recv_chunk
    \/ download_recv_error
    \/ download_recv_end
    \/ verify_fetch
    \/ verify_hash
    \/ verify_failed
    \/ download_place
    \/ cancel_download

SpecRelease == InitRelease /\ [][NextRelease]_vars

\* Concurrent digest lookups against DIGEST_CACHE.
NextDigest ==
    \/ \E p \in Procs : digests_check(p)
    \/ \E p \in Procs : digests_fetch(p)
    \/ \E p \in Procs : digests_write(p)
    \/ release_publish

SpecDigest == InitFlashOnly /\ [][NextDigest]_vars

\* Concurrent board detections against images_json.
NextCatalog ==
    \/ \E p \in Procs : board_check(p)
    \/ \E p \in Procs : board_fetch(p)
    \/ \E p \in Procs : board_store(p)
    \/ \E p \in Procs : board_read(p)
    \/ catalog_publish

SpecCatalog == InitFlashOnly /\ [][NextCatalog]_vars

\* A disk that answers every query and holds a medium.
Healthy(d) == d.open = 0 /\ d.geometry = 0 /\ d.size > 0

\* Fixtures of disks: at most MaxDevices indices expose a node; C: is the
\* boot volume, on the first disk that answers if there is one.
DiskFixture(S, g) ==
    LET disks == [n \in DiskNumbers |-> IF n \in S THEN g[n] ELSE Absent]
        H == {n \in S : Healthy(g[n])}
        first == IF H = {} THEN NoVolume
                 ELSE Volume(<<CHOOSE n \in H : \A m \in H : n <= m>>)
    IN  [disks |-> disks,
         volumes |-> [l \in LetterSet |-> IF l = "C:" THEN first ELSE NoVolume],
         boot |-> "C:"]

\* what the extent query may answer for a letter
VolumeAnswers ==
    {NoVolume, ExtentsFail}
    \cup {Volume(x) : x \in UNION {[1..n -> {0, 1}] : n \in 1..MaxExtents}}

\* Fixtures of volumes: an internal disk and a USB stick; each letter is
\* unmounted, fails its extent query or has its extents on the two disks,
\* and the boot volume is a mounted letter.
VolumeFixture(v, b) ==
    [disks |-> [n \in DiskNumbers |->
                  CASE n = 0 -> Disk(0, 0, 1, TRUE, TRUE, "SATA", FALSE)
                    [] n = 1 -> Disk(0, 0, 1, TRUE, TRUE, "USB", FALSE)
                    [] OTHER -> Absent],
     volumes |-> v,
     boot |-> b]

InitPlatform ==
    \/ \E S \in SUBSET DiskNumbers :
          /\ Cardinality(S) <= MaxDevices
          /\ \E g \in [S -> Exposed] : platform = DiskFixture(S, g)
    \/ \E v \in [LetterSet -> VolumeAnswers], b \in LetterSet :
          /\ v[b] # NoVolume
          /\ platform = VolumeFixture(v, b)

\* One enumeration of each platform fixture.
InitEnumerate ==
    /\ url = [where |-> "nowhere", xz |-> FALSE, valid |-> TRUE]
    /\ body = <<>>
    /\ InitDownload
    /\ InitFlash
    /\ InitDigest
    /\ InitCatalog
    /\ InitJobs
    /\ InitCustom
    /\ InitPlatform
    /\ InitDevicesIdle
    /\ InitSlug
    /\ InitTracker
    /\ InitDelete

NextDevices ==
    \/ enum_start
    \/ enum_step
    \/ enum_return

SpecDevices == InitEnumerate /\ [][NextDevices]_vars


\* Downloads of a URL given by its text, no sidecar, an empty body.
InitFilename ==
    /\ \E text \in UrlTexts : url = UrlOfText(text)
    /\ body = <<>>
    /\ InitDownload
    /\ InitFlash
    /\ InitDigest
    /\ InitCatalog
    /\ InitJobs
    /\ InitCustom
    /\ InitDevices
    /\ InitSlug
    /\ InitTracker
    /\ InitDelete

NextFilename ==
    \/ \E kind \in Kinds : download_start(Operation(kind, FALSE))
    \/ download_send
    \/ download_recv_end
    \/ download_place

SpecFilename == InitFilename /\ [][NextFilename]_vars

\* Downloads verified against a sidecar, for every response the server
\* may give to sha_url; the digests of the bodies fit DigestHexLen digits.
SidecarBodies == {b \in Bodies : Len(b) <= 1}

InitSidecar ==
    /\ url = [where |-> "nowhere", xz |-> FALSE, valid |-> TRUE]
    /\ body \in SidecarBodies
    /\ sidecar \in SidecarResponses
    /\ asset = NoAsset
    /\ InitDownloadIdle
    /\ InitFlash
    /\ InitDigest
    /\ InitCatalog
    /\ InitJobs
    /\ InitCustom
    /\ InitDevices
    /\ InitSlug
    /\ InitTracker
    /\ InitDelete

NextSidecar ==
    \/ \E kind \in Kinds : download_start(Operation(kind, TRUE))
    \/ download_send
    \/ download_recv_chunk
    \/ download_recv_end
    \/ verify_fetch
    \/ verify_hash
    \/ verify_failed
    \/ download_place

SpecSidecar == InitSidecar /\ [][NextSidecar]_vars

\* normalize_slug applied to every slug, and to its result.
InitNormalize ==
    /\ url = [where |-> "nowhere", xz |-> FALSE, valid |-> TRUE]
    /\ body = <<>>
    /\ InitDownload
    /\ InitFlash
    /\ InitDigest
    /\ InitCatalog
    /\ InitJobs
    /\ InitCustom
    /\ InitDevices
    /\ \E x \in Slugs :
          slug = [pc |-> "called", input |-> x, output |-> <<>>, again |-> <<>>]
    /\ InitTracker
    /\ InitDelete

NextSlug ==
    \/ slug_normalize
    \/ slug_normalize_again

SpecSlug == InitNormalize /\ [][NextSlug]_vars

\* A tracker of every total and log interval, updated by every amount.
InitProgress ==
    /\ url = [where |-> "nowhere", xz |-> FALSE, valid |-> TRUE]
    /\ body = <<>>
    /\ InitDownload
    /\ InitFlash
    /\ InitDigest
    /\ InitCatalog
    /\ InitJobs
    /\ InitCustom
    /\ InitDevices
    /\ InitSlug
    /\ \E total \in {0, MaxProcessed}, mb \in 0..MaxIntervalMb :
          tracker = ProgressTrackerNew(total, mb)
    /\ tret = None
    /\ tgh = TghNew
    /\ InitDelete

NextProgress == \E bytes_added \in 0..MaxAdded : tracker_update(bytes_added)

SpecProgress == InitProgress /\ [][NextProgress]_vars

\* The delete commands on every file system of the shape above: links
\* point at the images, and the cache holds entries only if it exists.
FileSystems ==
    {f \in [Requests \cup {CacheDir} ->
              {NoEntry, FileEntry, DirEntry} \cup
              {LinkTo(x) : x \in {CacheImage, HomeImage, OldImage}}] :
        /\ f[CacheDir] \in {NoEntry, DirEntry}
        /\ \A p \in {CacheImage, HomeImage, OldImage} : f[p] \in {NoEntry, FileEntry}
        /\ \A p \in {CacheLink, HomeLink} : f[p] # DirEntry
        /\ f[HomeLink] # FileEntry
        /\ f[CacheDir] = NoEntry => f[CacheImage] = NoEntry /\ f[CacheLink] = NoEntry}

InitCommands ==
    /\ url = [where |-> "nowhere", xz |-> FALSE, valid |-> TRUE]
    /\ body = <<>>
    /\ InitDownload
    /\ InitFlash
    /\ InitDigest
    /\ InitCatalog
    /\ InitJobs
    /\ InitCustom
    /\ InitDevices
    /\ InitSlug
    /\ InitTracker
    /\ entries \in FileSystems
    /\ cache_enabled \in {"true", "false", "unset"}
    /\ del = NoDelete

NextDelete ==
    \/ \E image_path \in Requests : force_delete_cached_image(image_path)
    \/ \E image_path \in Requests : delete_downloaded_image(image_path)

SpecDelete == InitCommands /\ [][NextDelete]_vars

\* delete_decompressed_custom_image on every file system made of the cache
\* directory, its custom-decompress directory with an image and a link,
\* an image beside that directory and an image elsewhere.
CustomEntries == {CacheDir, CustomDir, CustomImage, CustomLink, CacheImage, HomeImage}

CustomRequests ==
    {CustomImage, CustomLink, CustomDir, CacheImage, HomeImage,
     ClimbToHome, ClimbToCache}

CustomFileSystems ==
    {f \in [CustomEntries ->
              {NoEntry, FileEntry, DirEntry} \cup
              {LinkTo(x) : x \in {CustomImage, HomeImage}}] :
        /\ f[CacheDir] \in {NoEntry, DirEntry}
        /\ f[CustomDir] \in {NoEntry, DirEntry}
        /\ \A p \in {CustomImage, CacheImage, HomeImage} : f[p] \in {NoEntry, FileEntry}
        /\ f[CustomLink] \notin {FileEntry, DirEntry}
        /\ f[CacheDir] = NoEntry => f[CustomDir] = NoEntry /\ f[CacheImage] = NoEntry
        /\ f[CustomDir] = NoEntry => f[CustomImage] = NoEntry /\ f[CustomLink] = NoEntry}

InitCustomDelete ==
    /\ url = [where |-> "nowhere", xz |-> FALSE, valid |-> TRUE]
    /\ body = <<>>
    /\ InitDownload
    /\ InitFlash
    /\ InitDigest
    /\ InitCatalog
    /\ InitJobs
    /\ InitCustom
    /\ InitDevices
    /\ InitSlug
    /\ InitTracker
    /\ entries \in CustomFileSystems
    /\ cache_enabled = "unset"
    /\ del = NoDelete

NextCustomDelete ==
    \E image_path \in CustomRequests : delete_decompressed_custom_image(image_path)

SpecCustomDelete == InitCustomDelete /\ [][NextCustomDelete]_vars

\* Concurrent custom-image decompressions of one input.
NextJobs ==
    \/ \E p \in Procs : job_check(p)
    \/ \E p \in Procs : job_create(p)
    \/ \E p \in Procs : job_write(p)
    \/ clock_tick

SpecJobs == InitFlashOnly /\ [][NextJobs]_vars

\* Every file name, checked and then handed to decompress_local_file.
InitCodec ==
    /\ url = [where |-> "nowhere", xz |-> FALSE, valid |-> TRUE]
    /\ body = <<>>
    /\ InitDownload
    /\ InitFlash
    /\ InitDigest
    /\ InitCatalog
    /\ InitJobs
    /\ InitDevices
    /\ InitSlug
    /\ InitTracker
    /\ InitDelete
    /\ \E name \in Names : custom = [NoCustom EXCEPT !.name = name]

NextCodec ==
    \/ check_needs_decompression
    \/ decompress_dispatch

SpecCodec == InitCodec /\ [][NextCodec]_vars

----------------------------------------------------------------------------
(* Properties *)

ErrMismatch == ErrVerifyPrefix \o ErrSha256Mismatch
CancelResults == {ErrCancelled, ErrDecompressCancelled}
Returned == pc = "idle" /\ ret.result \notin {"none", "pending"}

FlagCount(s) ==
    (IF s.is_verifying_sha THEN 1 ELSE 0)
      + (IF s.is_decompressing THEN 1 ELSE 0)
      + (IF s.is_cancelled THEN 1 ELSE 0)

\* C1: a download that received data, was cancelled during network
\* receive, digest verification or decompression, and ends in Ok or in a
\* cancellation error, leaves no file at its final output path and no
\* temp file.
C1_CancelLeavesNoFile ==
    (/\ Returned
     /\ state.downloaded_bytes > 0
     /\ gh.cancelAt \in {"recv", "fetch", "hash", "decompress"}
     /\ ret.result \in {Ok} \cup CancelResults)
        => (~Exists(OutputPath(op)) /\ ~Exists(TempPath(op)))

\* C2: when the cache lookup returns a path, the download has returned
\* that path and recorded it in output_path, and it has built no HTTP
\* client, sent no request, looked up no digest and created no temp file,
\* whatever sha_url is.
C2_CacheHitNoNetwork ==
    gh.cacheHit =>
        /\ pc = "idle"
        /\ ret = [result |-> Ok, path |-> OutputFilename(op)]
        /\ state.output_path = OutputFilename(op)
        /\ Exists(OutputFilename(op))
        /\ ~gh.client /\ gh.requests = 0 /\ gh.digests = 0 /\ ~gh.temp

C2_Witness ==
    gh.cacheHit /\ pc = "idle" /\ op.sha /\ op.github /\ ret.result = Ok

\* C3 as stated: whenever the digest computed over the temp file differs
\* from the expected one, the download ends with the mismatch error.
C3_MismatchEndsWithMismatchError ==
    (Returned /\ loc.actual # NoDigest /\ loc.actual # loc.expected)
        => ret.result = ErrMismatch

\* C3 amended: with a verification method available, a download not served
\* from the cache gets past verification, and returns Ok, only if the
\* digest computed over the whole temp file equals the expected one; when
\* the computed digest differs the download ends with an error, never Ok:
\* the mismatch error, or "Download cancelled" if the cancellation flag is
\* set when the failure is handled.
C3_OkOnlyIfDigestEqual ==
    /\ (pc \in {"place", "decompress"} /\ CanVerify(op))
          => /\ loc.expected \in PublishedDigests
             /\ loc.actual = loc.expected
             /\ loc.actual = Sha256Of(fs[TempPath(op)])
    /\ (Returned /\ ret.result = Ok /\ CanVerify(op) /\ ~gh.cacheHit)
          => /\ loc.expected \in PublishedDigests
             /\ loc.actual = loc.expected
             /\ loc.actual = Sha256Of(body)
    /\ (Returned /\ loc.actual # NoDigest /\ loc.actual # loc.expected)
          => \/ ret.result = ErrMismatch
             \/ ret.result = ErrCancelled /\ state.is_cancelled

C3_Witness ==
    /\ Returned
    /\ Len(body) = MaxChunks
    /\ loc.actual = Sha256Of(body)
    /\ loc.expected = Sha256Of(Corrupted(body))
    /\ ret.result = ErrMismatch

\* C4: whenever no download is running, a file exists at a final output
\* path only if a download of it ran to successful completion.
C4_FinalFileOnlyIfCompleted ==
    pc = "idle" => \A p \in FinalPaths : Exists(p) => p \in gh.valid

\* C5: while a download is in flight at most one of is_verifying_sha,
\* is_decompressing and is_cancelled is true.
C5_AtMostOnePhaseFlag ==
    pc # "idle" => FlagCount(state) <= 1

\* C6: a flash with verify = false that returns Ok has performed reset,
\* recording of the image size, unmount, write and sync, in this order and
\* each once, and has read nothing back.
C6_NoVerifySequence ==
    (fpc = "idle" /\ fret = FlashOk /\ ~fop.verify)
        => /\ flog = <<"reset", "size", "unmount", "write", "sync">>
           /\ fstate.total_bytes = fop.size
           /\ fstate.written_bytes = fop.size
           /\ dev.written = fop.size
           /\ dev.verified = 0
           /\ fgh.vres = "none"

C6_Witness ==
    /\ fpc = "idle" /\ fret = FlashOk /\ ~fop.verify
    /\ fop.size = MaxImage /\ dev.written = MaxImage

\* C7: with verify = true, flash returns Ok only if the read-back
\* verification returned Ok; when it returned an error flash returns that
\* error; and verification begins only after the write succeeded and the
\* sync ran.
C7_VerifyDecidesResult ==
    /\ (fpc = "idle" /\ fret = FlashOk /\ fop.verify)
          => fgh.vres = FlashOk /\ dev.verified = fop.size
    /\ (fpc = "idle" /\ fgh.vres \notin {"none", FlashOk})
          => fret = fgh.vres
    /\ (fpc = "verifying" \/ fgh.vres # "none" \/ dev.verified > 0)
          => /\ fop.verify
             /\ fgh.synced
             /\ dev.written = fop.size
             /\ fstate.written_bytes = fop.size

C7_Witness ==
    /\ fpc = "idle" /\ fop.verify
    /\ dev.verified > 0
    /\ fgh.vres = ErrVerifyMismatch /\ fret = ErrVerifyMismatch

\* C8: if unmounting fails, flash returns that error and nothing is
\* written; the write is started only after unmount_device succeeded and
\* the image size was recorded.
C8_WriteOnlyAfterUnmount ==
    /\ fgh.unmount = "failed"
          => /\ fpc = "idle" /\ fret = ErrUnmount
             /\ dev.written = 0
             /\ \A i \in 1..Len(flog) : flog[i] # "write"
    /\ (fpc \in {"writing", "syncing", "verifying"} \/ dev.written > 0
          \/ \E i \in 1..Len(flog) : flog[i] = "write")
          => /\ fgh.unmount = "ok"
             /\ fstate.total_bytes = fop.size
             /\ SubSeq(flog, 1, 3) = <<"reset", "size", "unmount">>

C8_Witness ==
    fpc = "idle" /\ fgh.unmount = "failed" /\ fret = ErrUnmount

\* C9: a flash whose cancellation flag was set during its Writing phase,
\* more than one block before the end of the image, does not write the
\* remaining image and return Ok.
C9_CancelStopsWrite ==
    (/\ fpc = "idle"
     /\ fgh.cancelAt = "writing"
     /\ fgh.cancelWritten + 1 < fop.size)
        => ~(dev.written = fop.size /\ fret = FlashOk)

\* C10: a download that received data and whose cancellation flag was set
\* while it was in flight does not return Ok.
C10_CancelledNeverOk ==
    (Returned /\ state.downloaded_bytes > 0 /\ gh.cancelAt # "none")
        => ret.result # Ok

\* C11: DIGEST_CACHE is written at most once, and never while it already
\* holds a map.
C11_DigestCachePopulatedOnce ==
    ggh.writes <= 1 /\ ~ggh.overwrote

\* C12: images_json is stored at most once, keeps the catalog stored
\* first, and every caller that reaches step 8 reads that catalog.
C12_CatalogStoredOnce ==
    /\ cgh.writes <= 1
    /\ images_json = cgh.first
    /\ (cgh.writes = 0) = (images_json = None)
    /\ \A p \in Procs :
          /\ cpc[p] = "read" => images_json # None
          /\ cret[p].result # "Images not loaded"
          /\ cret[p].result = "Ok" => cret[p].json = cgh.first

C12_Witness ==
    /\ \A p \in Procs : cret[p].result = "Ok" /\ cloc[p] # None
    /\ \E p, q \in Procs : cloc[p] # cloc[q]

\* C13 as stated: a download whose digest comparison found a mismatch has
\* returned the 'SHA256 verification failed' error, its temp file is
\* deleted, is_verifying_sha is cleared, no file is at the final output
\* path and output_path is as it was when the download started.
C13_MismatchReturnsVerificationFailed ==
    (Returned /\ loc.verr = ErrSha256Mismatch)
        => /\ ret.result = ErrMismatch
           /\ ~Exists(TempPath(op))
           /\ ~state.is_verifying_sha
           /\ ~Exists(OutputPath(op))
           /\ state.output_path = gh.path0

\* C13 amended: a download whose digest comparison found a mismatch has
\* returned an error, the 'SHA256 verification failed' one or, when
\* is_cancelled is set, "Download cancelled"; its temp file is deleted,
\* is_verifying_sha is cleared, no file is at the final output path and
\* output_path is as it was when the download started.
C13_MismatchCleansUp ==
    (Returned /\ loc.verr = ErrSha256Mismatch)
        => /\ \/ ret.result = ErrMismatch
              \/ ret.result = ErrCancelled /\ state.is_cancelled
           /\ ret.path = NoPath
           /\ ~Exists(TempPath(op))
           /\ ~state.is_verifying_sha
           /\ ~Exists(OutputPath(op))
           /\ state.output_path = gh.path0

C13_Witness ==
    /\ Returned /\ loc.verr = ErrSha256Mismatch
    /\ ret.result = ErrMismatch
    /\ op.kind = "raw"
    /\ state.downloaded_bytes = MaxChunks
    /\ state.output_path = "a.img"

VerifyErrors ==
    {ErrVerifyPrefix \o e :
        e \in {ErrVerifyCancelled, ErrSha256Mismatch,
               "No SHA256 digest found for file", "Failed to fetch SHA",
               "Failed to open file for SHA", "Failed to read file for SHA"}}
DigestErrors ==
    {ErrVerifyPrefix \o e :
        e \in {ErrSha256Mismatch, "No SHA256 digest found for file",
               "Failed to fetch SHA"}}
StreamErrors == {"Download error", "Failed to write chunk"}
DecompressErrors ==
    {"xz decompression error", "Failed to write decompressed data",
     "Failed to flush output"}

\* C14 as stated: of a download that received data and failed, the
\* partial artifacts are gone if it ended by cancellation and in place if
\* it ended by a transport error, a temp-file write failure, a digest
\* mismatch, a digest fetch failure or a decompression error.
C14_ArtifactsDeletedIffCancelled ==
    (Returned /\ gh.temp /\ state.downloaded_bytes > 0)
        => /\ ret.result \in CancelResults
                => ~Exists(TempPath(op)) /\ ~Exists(OutputPath(op))
           /\ ret.result \in DigestErrors \cup StreamErrors \cup DecompressErrors
                => Exists(TempPath(op))

\* C14 amended: the temp file is deleted when the receive loop observes
\* the cancellation and on every verification failure (mismatch, digest
\* fetch failure, cancellation during verification); the partial output
\* is deleted when the decompression loop observes the cancellation; on a
\* transport error mid-stream and a temp-file write failure the temp file
\* is left with the chunks received so far, and on a decompression error
\* the temp file and the partial output are both left in place.
C14_ArtifactsByFailure ==
    (Returned /\ gh.temp)
        => /\ ret.result \in {ErrCancelled} \cup VerifyErrors
                => ~Exists(TempPath(op)) /\ ~Exists(OutputPath(op))
           /\ ret.result = ErrDecompressCancelled
                => ~Exists(OutputPath(op))
           /\ ret.result \in StreamErrors
                => /\ fs[TempPath(op)] = SubSeq(body, 1, loc.received)
                   /\ ~Exists(OutputPath(op))
           /\ ret.result \in DecompressErrors
                => /\ fs[TempPath(op)] = body
                   /\ Exists(OutputPath(op))
                   /\ Len(fs[OutputPath(op)]) = loc.decoded

C14_Witness ==
    /\ Returned /\ gh.temp
    /\ ret.result = "Download error"
    /\ loc.received > 0
    /\ fs[TempPath(op)] = SubSeq(body, 1, loc.received)

\* what decompress_with_reader_mt writes for a whole input
RECURSIVE XzDecode(_)
XzDecode(input) ==
    IF input = <<>> THEN <<>>
    ELSE Append(XzDecode(SubSeq(input, 1, Len(input) - 1)),
                XzDecodeChunk(input[Len(input)]))

\* C15: a download of a URL that does not name the release host, with no
\* sidecar URL, never sets is_verifying_sha, fetches and computes no
\* digest, and when it returns Ok the file is at the final output path
\* (the body, decompressed if download_image got an .xz name) and the temp
\* file is gone.
C15_NoMethodNoVerification ==
    (op.kind \in Kinds /\ ~op.github /\ ~op.sha)
        => /\ ~state.is_verifying_sha
           /\ pc \notin {"fetch", "hash", "verify_failed"}
           /\ gh.digests = 0 /\ gh.requests <= 1
           /\ loc.expected = NoDigest /\ loc.actual = NoDigest
           /\ loc.hashed = 0
           /\ (Returned /\ ret.result = Ok /\ ~gh.cacheHit)
                 => /\ ret.path = OutputPath(op)
                    /\ state.output_path = OutputPath(op)
                    /\ ~Exists(TempPath(op))
                    /\ fs[OutputPath(op)] =
                         IF op.kind = "image" /\ op.xz
                         THEN XzDecode(body) ELSE body

C15_Witness ==
    /\ op.kind = "image" /\ op.xz /\ ~op.github /\ ~op.sha
    /\ Returned /\ ret.result = Ok /\ ~gh.cacheHit
    /\ Len(body) = MaxChunks
    /\ fs[OutputPath(op)] = XzDecode(body)

\* C16: the expected digest is looked up in the release metadata exactly
\* when the URL belongs to the release host, and fetched from the sidecar
\* otherwise; a URL on another host is never verified against the release
\* metadata, and for a URL on the release host the sidecar is never
\* fetched.
C16_StrategyByHost ==
    /\ gh.digests > 0 => OnReleaseHost(url)
    /\ OnReleaseHost(url) => gh.requests <= 1
    /\ (pc = "hash" /\ OnReleaseHost(url))
          => gh.digests = 1
    /\ (pc = "hash" /\ ~OnReleaseHost(url))
          => gh.digests = 0 /\ gh.requests = 2

\* C17: every download, raw download and custom-image decompression
\* starts from reset counters and flags: while it is in flight no counter
\* or flag holds a value of a prior run, and an operation that returned
\* from the cache check left the counters at 0 and the phase flags false.
C17_ResetBeforeAnyEffect ==
    /\ pc # "idle"
          => /\ state.is_cancelled => gh.cancelAt # "none"
             /\ state.downloaded_bytes = loc.received
             /\ state.total_bytes \in {0, Len(body)}
             /\ state.is_verifying_sha
                   => pc \in {"fetch", "hash", "verify_failed"}
             /\ state.is_decompressing => pc \in {"decompress", "local"}
    /\ pc = "send"
          => /\ state.total_bytes = 0 /\ state.downloaded_bytes = 0
             /\ ~state.is_verifying_sha /\ ~state.is_decompressing
    /\ pc = "local"
          => /\ state.downloaded_bytes = 0
             /\ ~state.is_verifying_sha /\ state.is_decompressing
    /\ gh.cacheHit
          => /\ state.total_bytes = 0 /\ state.downloaded_bytes = 0
             /\ ~state.is_verifying_sha /\ ~state.is_decompressing

C17_Witness ==
    /\ pc = "local"
    /\ state.output_path = "a.img"
    /\ Len(body) = MaxChunks
    /\ Len(fs["a.img"]) = MaxChunks
    /\ state.downloaded_bytes = 0
    /\ ~state.is_cancelled

\* C18: while the receive loop runs downloaded_bytes equals the number of
\* bytes written so far to the temp file, and between the reset and the
\* return of a download it never decreases.
C18_DownloadedBytesMonotonic ==
    /\ [](pc = "recv"
            => /\ state.downloaded_bytes = Len(fs[TempPath(op)])
               /\ fs[TempPath(op)] = SubSeq(body, 1, loc.received))
    /\ [](pc # "idle" => state.downloaded_bytes = loc.received)
    /\ [][pc # "idle"
            => state'.downloaded_bytes >= state.downloaded_bytes]_vars

C18_Witness ==
    /\ pc = "recv"
    /\ state.downloaded_bytes = MaxChunks
    /\ Len(fs[TempPath(op)]) = MaxChunks

\* C19: is_verifying_sha is true only after the receive loop ended with
\* the whole body in the temp file; is_decompressing is true only with
\* is_verifying_sha cleared (and verification passed, when there is a
\* method); output_path is written by a download that reached the network
\* only once the decompressed or renamed file is in place and the temp
\* file gone.
C19_PhasesInSequence ==
    /\ ~(state.is_verifying_sha /\ state.is_decompressing)
    /\ (pc # "idle" /\ state.is_verifying_sha)
          => /\ pc \in {"fetch", "hash", "verify_failed"}
             /\ loc.received = Len(body)
             /\ fs[TempPath(op)] = body
    /\ (pc # "idle" /\ state.is_decompressing)
          => /\ pc = "decompress"
             /\ CanVerify(op) => loc.actual = loc.expected /\ loc.actual # NoDigest
    /\ pc \in {"send", "recv"}
          => ~state.is_verifying_sha /\ ~state.is_decompressing
    /\ (op.kind \in Kinds /\ ~gh.cacheHit /\ state.output_path # gh.path0)
          => /\ pc = "idle" /\ ret.result = Ok
             /\ state.output_path = OutputPath(op)
             /\ ~Exists(TempPath(op))
             /\ fs[OutputPath(op)] =
                  IF op.kind = "image" /\ op.xz THEN XzDecode(body) ELSE body

C19_Witness ==
    /\ Returned /\ ret.result = Ok /\ ~gh.cacheHit
    /\ op.kind = "image" /\ op.xz /\ op.sha
    /\ gh.path0 = "a.img.xz"
    /\ state.output_path = "a.img"
    /\ Len(body) = MaxChunks

\* C20: download_image_raw never sets is_decompressing and never
\* decompresses; its cache check and final path are keyed on the URL's
\* filename with the compression extension kept, where download_image
\* keys them on the name without ".xz"; the file it places is the body as
\* received, verified like download_image's when a method is available.
C20_RawKeepsCompressedFile ==
    /\ op.kind = "raw"
          => /\ ~state.is_decompressing
             /\ pc # "decompress" /\ loc.decoded = 0
             /\ gh.cacheHit => Exists(Filename(op))
             /\ (Returned /\ ret.result = Ok)
                   => /\ ret.path = Filename(op)
                      /\ state.output_path = Filename(op)
             /\ (Returned /\ ret.result = Ok /\ ~gh.cacheHit)
                   => /\ fs[Filename(op)] = body
                      /\ ~Exists(TempPath(op))
                      /\ CanVerify(op) => loc.actual = Sha256Of(body)
    /\ op.kind = "image"
          => /\ gh.cacheHit => Exists(TrimXz(Filename(op)))
             /\ (Returned /\ ret.result = Ok)
                   => /\ ret.path = TrimXz(Filename(op))
                      /\ state.output_path = TrimXz(Filename(op))
             /\ (Returned /\ ret.result = Ok /\ ~gh.cacheHit /\ CanVerify(op))
                   => loc.actual = Sha256Of(body)
    /\ pc \in {"recv", "fetch", "hash", "verify_failed", "place"}
          => fs[Filename(op) \o ".downloading"] # NoFile

C20_Witness ==
    /\ op.kind = "raw" /\ op.xz /\ op.sha
    /\ Returned /\ ret.result = Ok /\ ~gh.cacheHit
    /\ Len(body) = MaxChunks
    /\ fs["a.img.xz"] = body
    /\ fs["a.img"] = XzDecode(body)

----------------------------------------------------------------------------
(* C21: when the user declines or dismisses the PolicyKit consent, flash
   returns 'Operation cancelled by user', written_bytes is not updated and
   no sync or verification step runs; every other unsuccessful exit of the
   helper is reported as 'Flash failed'. *)
C21_DeclinedIsCancelledOthersFailed ==
    /\ (fpc = "idle" /\ fgh.exit = "declined") =>
          /\ fret = ErrUserCancelled
          /\ fstate.written_bytes = 0
          /\ ~fgh.synced
          /\ \A i \in 1..Len(flog) : flog[i] \notin {"sync", "verify"}
    /\ (fpc = "idle" /\ fgh.exit = "error") => fret = ErrFlashFailed

----------------------------------------------------------------------------
\* the indices of the records get_block_devices returned
Listed == {devices[i].disk : i \in 1..Len(devices)}

\* the indices at which the fixture exposes a node
ExposedAt == {n \in DiskNumbers : platform.disks[n] # Absent}

\* an extent reported for the letter's volume lies on the disk
OnDisk(l, disk) ==
    /\ platform.volumes[l].status = "ok"
    /\ \E j \in 1..Len(platform.volumes[l].extents) :
          platform.volumes[l].extents[j] = disk

(* C22: for any platform fixture exposing N devices (non-zero size, at any
   physical-drive indices) of which K are removable, list_devices returns
   exactly N records and marks exactly K of them removable. Checked for
   the fixtures all of whose devices answer every query and sit on a bus
   of the table. *)
C22_AllDevicesListed ==
    (/\ epc = "done"
     /\ \A n \in ExposedAt :
           LET d == platform.disks[n]
           IN  Healthy(d) /\ d.props /\ d.bus \in BusTypes)
        => /\ Len(devices) = Cardinality(ExposedAt)
           /\ Cardinality({i \in 1..Len(devices) : devices[i].is_removable})
                = Cardinality({n \in ExposedAt :
                                 platform.disks[n].bus \in {"USB", "SD"}})

(* C23: a returned device has is_system = true if and only if one of the
   drive letters mapped to it is the letter of the boot volume backing the
   running OS, whatever that letter is. *)
C23_SystemIffBootLetter ==
    epc = "done" =>
        \A i \in 1..Len(devices) :
            devices[i].is_system <=>
                (\E l \in LetterSet :
                    /\ OnDisk(l, devices[i].disk)
                    /\ l = platform.boot)

(* C24: a failure while querying any single device never aborts the
   enumeration: list_devices returns Ok with every other device that can
   be queried, and a zero-size device is skipped. Checked for the fixtures
   in which every MAX_CONSECUTIVE_ERRORS consecutive indices below a
   device expose at least one node. *)
C24_QueryFailureDoesNotAbort ==
    (/\ epc = "done"
     /\ \A n \in ExposedAt : \A k \in DiskNumbers :
           k + MAX_CONSECUTIVE_ERRORS <= n =>
              \E m \in k..(k + MAX_CONSECUTIVE_ERRORS - 1) : m \in ExposedAt)
        => /\ eret = "Ok"
           /\ \A n \in DiskNumbers : Healthy(platform.disks[n]) => n \in Listed
           /\ \A i \in 1..Len(devices) : devices[i].size > 0

----------------------------------------------------------------------------
\* the decompression loop is running, for a download or a custom image
Decompressing == pc \in {"decompress", "local"}

\* the file the loop reads and the path it writes
DecompressInput == IF op.kind = "local" THEN body ELSE fs[TempPath(op)]
DecompressOutput == IF op.kind = "local" THEN LocalOutputPath ELSE OutputPath(op)

(* C25: the decompression loop reads is_cancelled before every chunk read;
   when it observes the flag it deletes the partially written output file
   and returns 'Decompression cancelled'; it returns Ok only after the
   decoder signalled end of stream and the sink was flushed (the output
   then holds the whole decoded input). *)
C25_DecompressionCancelPolled ==
    /\ [][(/\ Decompressing
           /\ state.is_cancelled
           /\ <<pc, loc, fs>>' # <<pc, loc, fs>>)
            => /\ pc' = "idle"
               /\ ret'.result = ErrDecompressCancelled
               /\ fs'[DecompressOutput] = NoFile]_vars
    /\ [][(Decompressing /\ pc' = "idle" /\ ret'.result = Ok)
            => /\ ~state.is_cancelled
               /\ loc.decoded = Len(DecompressInput)
               /\ fs'[DecompressOutput] = XzDecode(DecompressInput)]_vars
    /\ []((pc = "idle" /\ ret.result = ErrDecompressCancelled)
            => ~Exists(DecompressOutput))

\* C25 witness: a decompression cancelled after it had written a chunk has
\* returned the cancellation error and its output file is gone.
C25_Witness ==
    /\ pc = "idle"
    /\ ret.result = ErrDecompressCancelled
    /\ gh.cancelAt \in {"decompress", "local"}
    /\ loc.decoded > 0
    /\ ~Exists(DecompressOutput)

----------------------------------------------------------------------------
\* the last non-empty '/'-separated segment of a path, <<>> if there is none
LastNonEmptySegment(path) ==
    LET E == {i \in 1..Len(path) : path[i] # "/"}
    IN  IF E = {} THEN <<>>
        ELSE LET e == CHOOSE i \in E : \A j \in E : i >= j
                 B == {i \in 1..e : \A k \in i..e : path[k] # "/"}
                 b == CHOOSE i \in B : \A j \in B : i <= j
             IN  SubSeq(path, b, e)

ErrNoFilename == "Invalid URL: no filename"

(* C26: for every URL the derived filename is the last non-empty
   '/'-separated segment of the part of the URL before the first '?';
   download fails with 'Invalid URL: no filename' only when no non-empty
   segment exists, and in that case performs no network or file I/O. *)
C26_FilenameIsLastNonEmptySegment ==
    (pc = "idle" /\ op.kind \in Kinds) =>
        LET want == LastNonEmptySegment(url_path(url.text))
        IN  /\ want # <<>> => extract_filename(url.text) = Some(want)
            /\ ret.result = ErrNoFilename <=> want = <<>>
            /\ ret.result = ErrNoFilename =>
                  /\ ~gh.client /\ gh.requests = 0 /\ gh.digests = 0
                  /\ ~gh.temp
                  /\ \A p \in Paths : ~Exists(p)

----------------------------------------------------------------------------
\* the sidecar body holds a first white-space-delimited token at s..e
TokenAt(text, s, e) ==
    /\ \A i \in 1..(s - 1) : text[i] = " "
    /\ \A i \in s..e : text[i] # " "
    /\ e = Len(text) \/ text[e + 1] = " "

\* the response is a success whose first token is DigestHexLen hex digits
SidecarWellFormed ==
    /\ sidecar.status = "ok"
    /\ \E s \in 1..Len(sidecar.text) :
          LET e == s + DigestHexLen - 1
          IN  /\ e <= Len(sidecar.text)
              /\ TokenAt(sidecar.text, s, e)
              /\ \A i \in s..e : sidecar.text[i] \in {"0", "a", "A"}

\* a download that went to the network with a sidecar URL has returned
SidecarDownloadReturned ==
    pc = "idle" /\ op.kind \in Kinds /\ op.sha /\ ~gh.cacheHit /\ gh.requests = 2

(* C27: the expected digest taken from a sidecar body is its first
   whitespace-delimited token lower-cased; it is accepted if and only if
   it is exactly 64 hexadecimal characters (DigestHexLen in the model),
   and an empty body, a malformed token or a non-success sidecar response
   makes verification fail with an error (never pass). *)
C27_SidecarDigestFormat ==
    /\ loc.expected # NoDigest =>
          /\ SidecarWellFormed
          /\ \E s \in 1..Len(sidecar.text) :
                LET e == s + DigestHexLen - 1
                IN  /\ e <= Len(sidecar.text)
                    /\ TokenAt(sidecar.text, s, e)
                    /\ Hex(loc.expected) =
                         [i \in 1..DigestHexLen |->
                            IF sidecar.text[s + i - 1] = "A" THEN "a"
                            ELSE sidecar.text[s + i - 1]]
    /\ (pc = "hash" /\ SidecarWellFormed) => loc.expected # NoDigest
    /\ (pc \in {"hash", "place"} \/ (SidecarDownloadReturned /\ ret.result = Ok))
          => SidecarWellFormed
    /\ (SidecarDownloadReturned /\ ~SidecarWellFormed)
          => ret.result = ErrVerifyPrefix \o "Failed to fetch SHA"
    /\ (SidecarDownloadReturned /\ ret.result = ErrVerifyPrefix \o "Failed to fetch SHA")
          => ~SidecarWellFormed

\* C27 witness: a download has passed verification against a sidecar whose
\* token is preceded by white space, holds an upper-case digit and is
\* followed by more text.
C27_Witness ==
    /\ SidecarDownloadReturned
    /\ ret.result = Ok
    /\ Len(sidecar.text) = MaxSidecarLen
    /\ sidecar.text[1] = " "
    /\ sidecar.text[2] = "A"
    /\ sidecar.text[MaxSidecarLen] = " "

----------------------------------------------------------------------------
\* the positions of the alphanumeric characters of a string, in order
AlnumPositions(x) == {i \in 1..Len(x) : x[i] \in {"a", "B", "b"}}

\* the k-th smallest element of a set of positions
Kth(P, k) == CHOOSE i \in P : Cardinality({j \in P : j <= i}) = k

(* C28: for every input string normalize_slug returns a string that is
   lowercased, in which every run of one or more non-alphanumeric
   characters between alphanumeric runs is a single hyphen, with no leading
   or trailing hyphen; consequently normalize_slug is idempotent. *)
C28_NormalizeSlug ==
    LET x == slug.input
        y == slug.output
        P == AlnumPositions(x)
        Q == AlnumPositions(y)
    IN  /\ slug.pc # "called" =>
              /\ \A i \in 1..Len(y) : y[i] \in {"a", "b", "-"}
              /\ y # <<>> => y[1] # "-" /\ y[Len(y)] # "-"
              /\ \A i \in 1..(Len(y) - 1) : ~(y[i] = "-" /\ y[i + 1] = "-")
              /\ Cardinality(Q) = Cardinality(P)
              /\ \A k \in 1..Cardinality(P) :
                    /\ y[Kth(Q, k)] = (IF x[Kth(P, k)] = "B" THEN "b" ELSE x[Kth(P, k)])
                    /\ k < Cardinality(P) =>
                          (Kth(Q, k + 1) = Kth(Q, k) + 2
                              <=> Kth(P, k + 1) > Kth(P, k) + 1)
        /\ slug.pc = "returned twice" => slug.again = slug.output

\* C28 witness: a slug with a leading separator, an upper-case letter and
\* a trailing run of two separators has been normalized twice.
C28_Witness ==
    /\ slug.pc = "returned twice"
    /\ Len(slug.input) = MaxSlugLen
    /\ slug.input[1] = "_"
    /\ slug.input[2] = "B"
    /\ slug.input[MaxSlugLen - 1] = "_"
    /\ slug.input[MaxSlugLen] = "-"
    /\ slug.output = <<"b">>

----------------------------------------------------------------------------
(* C29: update(bytes_added) adds bytes_added to the cumulative count and
   returns a snapshot if and only if the cumulative count has crossed a
   multiple of log_interval_bytes since the last emitted snapshot
   (floor(processed / interval) > floor(bytes_at_last_snapshot /
   interval)); it returns at most one snapshot per call and none when the
   interval is 0. *)
C29_SnapshotOnIntervalCrossing ==
    tgh.calls > 0 =>
        LET interval == tracker.log_interval_bytes
            processed == tracker.processed_bytes
        IN  /\ processed = tgh.before + tgh.added
            /\ Len(tret) <= 1
            /\ interval = 0 => tret = None
            /\ interval # 0 =>
                  (tret # None <=>
                     processed \div interval > tgh.emitted_before \div interval)
            /\ tret # None => tret[1].processed_bytes = processed

\* C29 witness: after a snapshot, an update that stays inside the interval
\* has returned none although the count has passed the first multiple.
C29_Witness ==
    /\ tgh.calls = 2
    /\ tracker.log_interval_bytes = BytesPerMb * MaxIntervalMb
    /\ tgh.emitted_before > tracker.log_interval_bytes
    /\ tgh.added > 0
    /\ tret = None

----------------------------------------------------------------------------
\* the request of the last delete command resolved, before it ran, to a
\* path outside the cache directory
ResolvedOutsideCache ==
    /\ del.cmd # "none"
    /\ canonicalize(del.before, del.path) # None
    /\ ~(/\ del.before[CacheDir] = DirEntry
         /\ canonicalize(del.before, del.path)[1][1] = "cache")

\* the entries the last delete command removed
Removed ==
    {p \in Requests \cup {CacheDir} : del.before[p] # NoEntry /\ entries[p] = NoEntry}

(* C30 as stated: a request whose symlink-resolved path lies outside the
   cache directory returns 'Cannot delete entries outside cache directory'
   and leaves the file system unchanged, for both commands. Checked where
   the cache directory exists. *)
C30_OutsideRequestIsRefused ==
    (ResolvedOutsideCache /\ del.before[CacheDir] = DirEntry) =>
        /\ del.result = ErrOutsideCache
        /\ entries = del.before

(* C30: force_delete_cached_image and delete_downloaded_image never remove
   a file whose symlink-resolved path lies outside the cache directory: a
   request for one leaves the file system unchanged, and returns 'Cannot
   delete entries outside cache directory' when the cache directory exists
   and, for delete_downloaded_image, cache_enabled is false;
   delete_downloaded_image removes nothing and returns Ok when
   cache_enabled is true or unset. *)
C30_NothingOutsideCacheRemoved ==
    del.cmd # "none" =>
        /\ \A p \in Removed :
              /\ canonicalize(del.before, p) # None
              /\ canonicalize(del.before, p)[1][1] = "cache"
              /\ canonicalize(del.before, del.path) = canonicalize(del.before, p)
        /\ \A p \in Requests \cup {CacheDir} : entries[p] \in {del.before[p], NoEntry}
        /\ ResolvedOutsideCache =>
              /\ entries = del.before
              /\ (/\ del.before[CacheDir] = DirEntry
                  /\ \/ del.cmd = "force_delete_cached_image"
                     \/ cache_enabled = "false")
                    => del.result = ErrOutsideCache
        /\ (del.cmd = "delete_downloaded_image" /\ cache_enabled # "false")
              => entries = del.before /\ del.result = "Ok"

\* C30 witness: a forced delete of a link inside the cache that points at
\* an existing image outside of it was refused and removed nothing.
C30_Witness ==
    /\ del.cmd = "force_delete_cached_image"
    /\ del.path = CacheLink
    /\ del.before[CacheLink] = LinkTo(HomeImage)
    /\ del.before[HomeImage] = FileEntry
    /\ del.result = ErrOutsideCache
    /\ entries = del.before

----------------------------------------------------------------------------
(* C31: delete_decompressed_custom_image only deletes files located inside
   the custom-decompress cache directory: for any image_path that resolves
   (through '..' components or symlinks) to a file outside that directory,
   the file is not removed. *)
C31_OnlyCustomCacheFilesDeleted ==
    del.cmd = "delete_decompressed_custom_image" =>
        \A p \in DOMAIN entries :
            (del.before[p] # NoEntry /\ entries[p] = NoEntry)
                => starts_with(p, CustomDir)

----------------------------------------------------------------------------
\* the operation is in one of its loops: network receive, SHA-256 hashing,
\* decompression
InLoop == pc \in {"recv", "hash", "decompress", "local"}

(* C32: in each download-side loop (network receive, SHA-256 hashing,
   decompression) is_cancelled is read at the start of every iteration,
   before the chunk is written, hashed or decoded: the step a loop takes
   with the flag set processes no chunk (nothing is appended to the temp
   file or the output, nothing is fed to the hasher) and leaves the loop,
   so a flag set while a chunk is being processed lets at most that chunk
   through. *)
C32_CancelPolledEveryIteration ==
    [][(InLoop /\ state.is_cancelled)
          => /\ pc' \notin {"recv", "hash", "decompress", "local", "fetch"}
             /\ loc'.received = loc.received
             /\ loc'.hashed = loc.hashed
             /\ loc'.hasher = loc.hasher
             /\ loc'.decoded = loc.decoded
             /\ state'.downloaded_bytes = state.downloaded_bytes
             /\ \A p \in Paths : fs'[p] \in {fs[p], NoFile}
             /\ (pc \in {"decompress", "local"} \/ loc.received < Len(body))
                   => /\ pc' \in {"idle", "verify_failed"}
                      /\ pc' = "idle" => ret'.result \in CancelResults
                      /\ pc' = "verify_failed" => loc'.verr = ErrVerifyCancelled]_vars

\* C32 witness: the hashing loop, cancelled after it had hashed a chunk and
\* before the last one, has stopped with the rest of the file unhashed.
C32_Witness ==
    /\ pc = "verify_failed"
    /\ loc.verr = ErrVerifyCancelled
    /\ gh.cancelAt = "hash"
    /\ loc.hashed > 0
    /\ loc.hashed < Len(fs[TempPath(op)])

----------------------------------------------------------------------------
(* C33: when decompression returns Ok, the output file content is exactly
   the in-order concatenation of every chunk the decoder returned before
   its first zero-length read: no chunk is dropped, duplicated, truncated
   or reordered, and the buffered sink has been flushed (Ok is returned
   only by the step in which flush succeeded). While the loop runs the
   output holds the chunks decoded so far, in order. *)
C33_OutputIsConcatenationOfChunks ==
    /\ Decompressing
          => /\ loc.decoded <= Len(DecompressInput)
             /\ fs[DecompressOutput] =
                  [i \in 1..loc.decoded |-> XzDecodeChunk(DecompressInput[i])]
    /\ (pc = "idle" /\ ret.result = Ok /\ loc.decoded > 0)
          => /\ loc.decoded = Len(body)
             /\ ret.path = DecompressOutput
             /\ fs[ret.path] = [i \in 1..Len(body) |-> XzDecodeChunk(body[i])]
    /\ (pc = "idle" /\ ret.result = "Failed to flush output")
          => ret.path = NoPath

\* C33 witness: a custom image of MaxChunks different chunks has been
\* decompressed and its output holds them in order.
C33_Witness ==
    /\ pc = "idle" /\ ret.result = Ok /\ op.kind = "local"
    /\ Len(body) = MaxChunks
    /\ body[1] # body[MaxChunks]
    /\ loc.decoded = MaxChunks
    /\ fs[LocalOutputPath] = XzDecode(body)

----------------------------------------------------------------------------
(* C34: two decompress_local operations that run concurrently (including
   on the same input within the same millisecond) never use the same
   output path, and the already-exists short-circuit never returns a file
   that another operation is still writing. *)
C34_ConcurrentOutputsDistinct ==
    /\ \A p, q \in Procs :
          (/\ p # q
           /\ jobs[p].pc \in {"create", "writing"}
           /\ jobs[q].pc \in {"create", "writing"})
              => jobs[p].path # jobs[q].path
    /\ \A p \in Procs : ~jobs[p].busy

----------------------------------------------------------------------------
(* C35: for every path for which needs_decompression returns true
   (extension xz, gz, bz2 or zst in any letter case), decompress_local_file
   dispatches to the matching codec and strips that extension from the
   output name; it returns 'Unsupported compression format' only for paths
   for which needs_decompression is false. *)
C35_DispatchMatchesNeedsDecompression ==
    custom.pc = "dispatched" =>
        /\ custom.needs =>
              LET ext == extension(custom.name)[1]
              IN  /\ custom.result =
                        (CASE ext_to_lowercase(ext) = ExtXz -> "xz"
                           [] ext_to_lowercase(ext) = ExtGz -> "gz"
                           [] ext_to_lowercase(ext) = ExtBz2 -> "bz2"
                           [] OTHER -> "zst")
                  /\ custom.base =
                        SubSeq(custom.name, 1, Len(custom.name) - Len(ext) - 1)
        /\ custom.result = ErrUnsupported => ~custom.needs

----------------------------------------------------------------------------
(* C36: get_drive_letters_for_disk attributes a drive letter to disk d if
   and only if at least one of the number_of_extents extents reported for
   that letter's volume lies on disk d, and it processes a volume with any
   number of extents without an out-of-range access or abort. *)
C36_LetterIffAnExtentOnDisk ==
    /\ epc # "panic"
    /\ epc = "done" =>
          \A i \in 1..Len(devices) : \A l \in LetterSet :
              (\E k \in 1..Len(devices[i].letters) : devices[i].letters[k] = l)
                  <=> OnDisk(l, devices[i].disk)

----------------------------------------------------------------------------
(* C37: starting a second operation on the shared DownloadState while a
   first is in flight does not disturb the first: while the first is in
   flight its counters never decrease, and a cancellation requested while
   it stood in its hashing or decompression loop, which poll the flag in
   every iteration, ends it with a cancellation error. *)
C37_SecondOperationLeavesFirstUndisturbed ==
    /\ [][(pc # "idle" /\ pc' # "idle") =>
            /\ state'.downloaded_bytes >= state.downloaded_bytes
            /\ state'.total_bytes >= state.total_bytes]_vars
    /\ []((Returned /\ gh.cancelAt \in {"hash", "decompress", "local"})
            => ret.result \in CancelResults)

----------------------------------------------------------------------------
(* C38: whenever a download, raw download or local decompression has
   returned, with success, failure or cancellation, the DownloadState is
   idle: is_verifying_sha and is_decompressing are both false. *)
C38_FlagsClearedOnReturn ==
    Returned => ~state.is_verifying_sha /\ ~state.is_decompressing

----------------------------------------------------------------------------
(* C39: state.output_path is written only at the successful end of an
   operation, and it holds a path only if the most recent operation on the
   state returned Ok with that path: after an operation that failed or was
   cancelled it does not still hold the path of an earlier operation. *)
C39_OutputPathOfLatestSuccessOnly ==
    /\ [][state'.output_path # state.output_path
            => /\ pc' = "idle"
               /\ ret'.result = Ok
               /\ ret'.path = state'.output_path]_vars
    /\ []((Returned /\ state.output_path # NoPath)
            => /\ ret.result = Ok
               /\ ret.path = state.output_path)

----------------------------------------------------------------------------
\* the release holds a valid digest for the file: DigestHexLen hex digits,
\* with or without the prefix "sha256:"
HasValidDigest ==
    /\ asset.name = "present"
    /\ asset.digest # None
    /\ \E h \in [1..DigestHexLen -> {"a", "A"}] :
          asset.digest[1] \in {h, <<"sha256:">> \o h}

\* the operation looked the file up in the release metadata and got no
\* digest: the metadata could not be fetched or holds no valid digest
LookupGotNoDigest ==
    /\ op.github
    /\ asset # NoAsset
    /\ \/ gh.metadata = "failed"
       \/ gh.metadata \in {"fetched", "cached"} /\ ~HasValidDigest

\* what the claim says of the file system, the requests and the cache
C40_Effects ==
    /\ Returned /\ LookupGotNoDigest =>
          /\ fs[TempPath(op)] = NoFile
          /\ fs[OutputPath(op)] = NoFile
          /\ gh.requests = 1
          /\ loc.expected = NoDigest
          /\ loc.hashed = 0
          /\ state.output_path = gh.path0
    /\ gh.metadata = "failed" => digest_cache = None
    /\ gh.metadata = "cached" => digest_cache # None

(* C40: for a URL on the release host, if the release metadata cannot be
   fetched or holds no valid digest for the file name, the download fails
   with the verification error - or with "Download cancelled" when
   is_cancelled is set by the time the failure is handled -, the temp file
   is deleted and nothing is placed at the final path; the sidecar URL is
   not requested and nothing is hashed or placed unverified; a failed
   metadata fetch leaves DIGEST_CACHE empty, and a lookup uses the cache
   only when it is populated. *)
C40_NoDigestFailsVerification ==
    /\ C40_Effects
    /\ Returned /\ LookupGotNoDigest =>
          ret.result \in {ErrVerifyPrefix \o ErrNoDigest, ErrCancelled}

\* C40 witness: a download from the release host, requested with a sidecar
\* URL, whose metadata fetch failed has returned the verification error
\* after receiving a chunk, without a second request.
C40_Witness ==
    /\ Returned
    /\ op.github /\ op.sha
    /\ gh.metadata = "failed"
    /\ loc.received > 0
    /\ gh.requests = 1
    /\ ret.result = ErrVerifyPrefix \o ErrNoDigest

\* C40 as stated: the download fails with a verification error.
C40_NoDigestReturnsVerificationError ==
    /\ C40_Effects
    /\ Returned /\ LookupGotNoDigest =>
          ret.result = ErrVerifyPrefix \o ErrNoDigest

====
